---- MODULE Spec2Model ----
(***************************************************************************)
(* Model of teuthology/task/install.py: the install() lifecycle (install   *)
(* fan-out, usage window, teardown stages) and the layered configuration   *)
(* lookup _get_config_value_for_remote.                                    *)
(***************************************************************************)
EXTENDS Integers, Sequences, FiniteSets, TLC

\* ------------------------------------------------------------------ bounds

\* Number of remotes in ctx.cluster.remotes.
NumRemotes == 3

\* Number of distinct non-None values a configuration setting can take.
NumValues == 2

\* ------------------------------------------------------- program constants

Remotes == 1..NumRemotes

\* Outputs of `lsb_release -is`: the two names _get_os_version knows, and one
\* it does not know.
os_alias == {"openSUSE project", "SUSE LINUX"}
OsNames == {"SUSE LINUX", "Ubuntu"}

\* Values of config.get('project', 'ceph').
Projects == {"ceph", "samba"}

\* Keys of install_info / remove_info built by install().
info_keys == {"rpm"}

\* The fan-out steps of install(), in call order.
Stages == <<"install_packages", "remove_packages", "remove_sources", "purge_data">>
StageSet == {Stages[i] : i \in 1..Len(Stages)}

VARIABLES
    osName,          \* remote -> what `lsb_release -is` prints on it
    project,         \* config.get('project', 'ceph')
    pc,              \* where install() is: "idle", a stage name, or "active"
    nextIdx,         \* position of the spawn loop of the current stage
    bodyExc,         \* an exception was raised inside the current with-block
    running,         \* spawned actions that have not finished
    succeeded,       \* spawned actions that returned normally
    failed,          \* spawned actions that raised
    reported,        \* stage -> actions the stage's parallel block reported failed
    returned,        \* stages that have returned to install()
    windowExit,      \* how the caller's with-body ended: none / returned / raised
    teardownEntries, \* how many times the finally block was entered
    exc,             \* the exception propagating out of install(), or "none"
    result,          \* none / returned / raised: how install() ended
    config,          \* layered config handed to _get_config_value_for_remote
    roles,           \* ctx.cluster.remotes[remote], in declared order
    key,             \* the key looked up
    value,           \* the value returned
    called,          \* _get_config_value_for_remote has returned
    u,               \* the run of _get_baseurl: what the remote and the config
                     \* hold, where the run is, and what it has computed
    host,            \* one remote under _remove_rpm / _remove_sources_list_rpm:
                     \* what is on it, where the call is, and what it has done
    poll,            \* the run of a version-fetch loop: its arguments, the
                     \* version file on the repository host, where the loop
                     \* is, and what it has done
    inst,            \* one run of _update_rpm_package_list_and_install on a
                     \* remote: what lsb_release prints there, where the run
                     \* is, and the commands it has issued
    proc,            \* the Python process: the module-level rpm_packages and
                     \* what the last call of install() built from it
    tk,              \* one call of task(): its config and the flavor it chose
    up,              \* one call of upgrade_common: its config, the overrides,
                     \* the remote -> config dict and the node dicts
    ship,            \* one use of ship_utilities: where it is and the commands
                     \* issued on the remotes
    ping,            \* one call of Salt.__ping: the attempts made so far
    ans              \* one CephAnsible task: the config it was built from and
                     \* the config it holds

lifeVars == <<osName, project, pc, nextIdx, bodyExc, running, succeeded, failed,
              reported, returned, windowExit, teardownEntries, exc, result>>
cfgVars == <<config, roles, key, value, called>>
auxVars == <<u, poll, host>>
soloVars == <<inst, proc, tk>>
lateVars == <<up, ship, ping, ans>>
vars == <<osName, project, pc, nextIdx, bodyExc, running, succeeded, failed,
          reported, returned, windowExit, teardownEntries, exc, result,
          config, roles, key, value, called, u, poll, host, inst, proc, tk,
          up, ship, ping, ans>>

\* ------------------------------------------------------------ config lookup

\* Python's None.
None == 0
Values == 1..NumValues

RoleNames == {"mon.a", "osd.0"}
Keys == {"branch", "tag"}

\* dict.get(key): the value, or None when the key is missing.
Get(d, k) == IF k \in DOMAIN d THEN d[k] ELSE None

\* A dict from some of the keys S to values V.
Dicts(S, V) == UNION {[D -> V] : D \in SUBSET S}

\* for role in roles: if role in config and key in config[role]: return ...
RECURSIVE RoleLookup(_, _, _, _)
\* The loop without its `key in config[role]` test.
RoleLookupAnySubmap(cfg, rs, k, i) ==
    IF i > Len(rs)
    THEN Get(cfg.flat, k)
    ELSE IF rs[i] \in DOMAIN cfg.roles
         THEN Get(cfg.roles[rs[i]], k)
         ELSE RoleLookup(cfg, rs, k, i + 1)

RoleLookup(cfg, rs, k, i) ==
    IF i > Len(rs)
    THEN Get(cfg.flat, k)
    ELSE IF rs[i] \in DOMAIN cfg.roles /\ k \in DOMAIN cfg.roles[rs[i]]
         THEN Get(cfg.roles[rs[i]], k)
         ELSE RoleLookup(cfg, rs, k, i + 1)

\* The lookup going on to the other tiers when 'all' lacks the key.
get_config_value_all_falls_through(cfg, rs, k) ==
    IF cfg.hasAll /\ k \in DOMAIN cfg.all
    THEN Get(cfg.all, k)
    ELSE RoleLookup(cfg, rs, k, 1)

\* The lookup ending at the role tier when the remote has roles.
get_config_value_no_flat_after_roles(cfg, rs, k) ==
    IF cfg.hasAll
    THEN Get(cfg.all, k)
    ELSE IF Len(rs) > 0
         THEN IF \E i \in DOMAIN rs :
                     rs[i] \in DOMAIN cfg.roles /\ k \in DOMAIN cfg.roles[rs[i]]
              THEN RoleLookup(cfg, rs, k, 1)
              ELSE None
         ELSE Get(cfg.flat, k)

\* A config dict is held as its three kinds of entries: the 'all' entry (when
\* hasAll), the entries keyed by a role name, and the entries keyed by a
\* setting name.
_get_config_value_for_remote(cfg, rs, k) ==
    IF cfg.hasAll
    THEN Get(cfg.all, k)
    ELSE IF Len(rs) > 0
         THEN RoleLookup(cfg, rs, k, 1)
         ELSE Get(cfg.flat, k)

\* Role lists a remote can declare: no role twice.
RoleLists == {s \in UNION {[1..n -> RoleNames] : n \in 0..Cardinality(RoleNames)} :
                 \A i, j \in DOMAIN s : i # j => s[i] # s[j]}

Configs == [hasAll : BOOLEAN,
            all : Dicts(Keys, Values),
            roles : Dicts(RoleNames, Dicts(Keys, Values)),
            flat : Dicts(Keys, Values)]

EmptyConfig == [hasAll |-> FALSE, all |-> <<>>, roles |-> <<>>, flat |-> <<>>]

\* ----------------------------------------------------------------- strings

\* A Python str is the sequence of its pieces: single characters where the
\* code looks inside the string, whole words elsewhere.  NoneStr stands for
\* None where a str is expected.
NoneStr == <<"<None>">>

\* Python truth value of a str or None.
Truthy(x) == x # NoneStr /\ x # <<>>

\* dict.get(name, default) for a setting that is NoneStr when missing.
GetDefault(x, default) == IF x = NoneStr THEN default ELSE x

\* str.find(c): the 0-based index of the first c, or -1.
Find(str, c) ==
    IF \E i \in 1..Len(str) : str[i] = c
    THEN (CHOOSE i \in 1..Len(str) :
              str[i] = c /\ \A j \in 1..(i - 1) : str[j] # c) - 1
    ELSE -1

\* str[0:stop]: a negative stop counts from the end.
SliceTo(str, stop) ==
    LET e == IF stop < 0 THEN Len(str) + stop ELSE stop
        n == IF e < 0 THEN 0 ELSE IF e > Len(str) THEN Len(str) ELSE e
    IN  SubSeq(str, 1, n)

\* str.replace(a, b) for single characters.
Replace(str, a, b) == [i \in 1..Len(str) |-> IF str[i] = a THEN b ELSE str[i]]

\* ------------------------------------------------------------ _get_baseurl

\* Longest `lsb_release -rs` output looked at.
MaxRelLen == 3

RelChars == {"6", "7", "."}
RelVals == UNION {[1..n -> RelChars] : n \in 1..MaxRelLen}
Distros == {"CentOS", "RedHatEnterpriseServer", "Fedora", "Ubuntu"}

\* _get_uri with the branch taking precedence over the tag.
get_uri_branch_first(tag, branch, sha1) ==
    IF Truthy(branch) THEN <<"ref/">> \o branch
    ELSE IF Truthy(tag) THEN <<"ref/">> \o tag
    ELSE IF Truthy(sha1) THEN <<"sha1/">> \o sha1
    ELSE <<"ref/", "master">>

_get_uri(tag, branch, sha1) ==
    IF Truthy(tag) THEN <<"ref/">> \o tag
    ELSE IF Truthy(branch) THEN <<"ref/">> \o branch
    ELSE IF Truthy(sha1) THEN <<"sha1/">> \o sha1
    ELSE <<"ref/", "master">>

\* The distro branches of _get_baseurlinfo_and_dist: distro_release, dist and
\* dist_release from the distro name, the release and the codename.
DistInfo(distro, rel, codename) ==
    IF distro = "CentOS"
    THEN LET relval == SliceTo(rel, Find(rel, ".")) IN
         [distro_release |-> <<"centos">> \o relval,
          dist |-> <<"centos">> \o relval,
          dist_release |-> <<"el">> \o relval]
    ELSE IF distro = "RedHatEnterpriseServer"
    THEN LET relval == Replace(rel, ".", "_")
             short_relval == SliceTo(relval, Find(relval, "_")) IN
         [distro_release |-> <<"rhel">> \o relval,
          dist |-> <<"rhel">> \o relval,
          dist_release |-> <<"el">> \o short_relval]
    ELSE IF distro = "Fedora"
    THEN [distro_release |-> <<"fc">> \o rel,
          dist |-> <<"fc">> \o rel,
          dist_release |-> <<"fc">> \o rel]
    ELSE [distro_release |-> NoneStr,
          dist |-> codename,
          dist_release |-> NoneStr]

\* The dict _get_baseurlinfo_and_dist returns.
baseurlinfo_and_dist(in) ==
    LET d == DistInfo(in.distro, in.relval, in.codename) IN
    [arch |-> in.arch,
     distro |-> in.distro,
     relval |-> in.relval,
     distro_release |-> d.distro_release,
     dist |-> d.dist,
     dist_release |-> d.dist_release,
     flavor |-> GetDefault(in.flavor, <<"basic">>),
     uri |-> _get_uri(in.tag, in.branch, in.sha1)]

\* The format of _get_baseurl with distro_release in the place of dist.
base_url_of_distro_release(in, baseparms) ==
    <<"http://">> \o GetDefault(in.gitbuilder_host, <<"gitbuilder.ceph.com">>)
        \o <<"/">> \o GetDefault(in.project, <<"ceph">>)
        \o <<"-">> \o in.system_type
        \o <<"-">> \o baseparms.distro_release
        \o <<"-">> \o baseparms.arch
        \o <<"-">> \o baseparms.flavor
        \o <<"/">> \o baseparms.uri

\* 'http://{host}/{proj}-{pkg_type}-{dist}-{arch}-{flavor}/{uri}'.format(...)
base_url_format(in, baseparms) ==
    <<"http://">> \o GetDefault(in.gitbuilder_host, <<"gitbuilder.ceph.com">>)
        \o <<"/">> \o GetDefault(in.project, <<"ceph">>)
        \o <<"-">> \o in.system_type
        \o <<"-">> \o baseparms.dist
        \o <<"-">> \o baseparms.arch
        \o <<"-">> \o baseparms.flavor
        \o <<"/">> \o baseparms.uri

\* What a run of _get_baseurl reads: the remote's probes, the remote's
\* system type, the teuthology config and the task config (the values
\* _get_config_value_for_remote gives for tag, branch and sha1).
UrlInputs ==
    [arch : {<<"x86_64">>},
     distro : Distros,
     relval : RelVals,
     codename : {<<"trusty">>},
     system_type : {<<"deb">>, <<"rpm">>},
     gitbuilder_host : {NoneStr, <<"gb.example.com">>},
     project : {NoneStr, <<"samba">>},
     flavor : {NoneStr, <<"gcov">>},
     tag : {NoneStr, <<>>, <<"v0.80">>},
     branch : {NoneStr, <<>>, <<"next">>},
     sha1 : {NoneStr, <<>>, <<"67a95b9">>}]

UrlIdleInput ==
    [arch |-> <<"x86_64">>, distro |-> "Ubuntu", relval |-> <<"7">>,
     codename |-> <<"trusty">>, system_type |-> <<"deb">>,
     gitbuilder_host |-> NoneStr, project |-> NoneStr, flavor |-> NoneStr,
     tag |-> NoneStr, branch |-> NoneStr, sha1 |-> NoneStr]

\* Before _get_baseurl is called with input `in`.
UrlStart(in) == [pc |-> "start", in |-> in, baseparms |-> <<>>,
                 base_url |-> NoneStr, probed |-> NoneStr]

UrlIdle == u = UrlStart(UrlIdleInput)

\* ------------------------------------------------------ version-fetch loop

\* Most failing fetches followed in one run.
MaxFailures == 2

\* time.sleep(15)
SleepSeconds == 15

Whitespace == {" ", "\n"}

RECURSIVE LStrip(_)
LStrip(str) == IF str # <<>> /\ Head(str) \in Whitespace THEN LStrip(Tail(str)) ELSE str

RECURSIVE RStrip(_)
RStrip(str) == IF str # <<>> /\ str[Len(str)] \in Whitespace
               THEN RStrip(SubSeq(str, 1, Len(str) - 1))
               ELSE str

\* str.strip()
Strip(str) == RStrip(LStrip(str))

\* What the version file can hold.
Contents == {<<"0.67-240-g67a95b9">>,
             <<"0.67-240-g67a95b9", "\n">>,
             <<" ", "0.67", " ", "240", "\n", "\n">>,
             <<"\n">>}

PollBaseUrl == <<"http://", "gitbuilder.ceph.com", "/", "ceph", "-", "deb", "-",
                 "raring", "-", "x86_64", "-", "basic", "/", "ref/", "master">>

\* The two copies of the loop: _block_looking_for_package_version ("block")
\* and the one inside _update_deb_package_list_and_install ("deb").
PollFns == {"block", "deb"}

\* Before the loop is entered.  `wait` is the wait argument, respectively
\* config.get('wait_for_package').
PollStart(fn, wait, content) ==
    [fn |-> fn, wait |-> wait, base_url |-> PollBaseUrl,
     published |-> FALSE, content |-> content,
     pc |-> "fetch", exitstatus |-> 0, stdout |-> <<>>,
     version |-> NoneStr, err_url |-> NoneStr,
     fetches |-> 0, failures |-> 0, sleeps |-> 0, clock |-> 0,
     fetched |-> {}]

PollIdle == poll = PollStart("block", FALSE, <<"\n">>)

\* ------------------------------------------------- the commands on a remote

\* Most calls of one removal function on the same remote.
MaxRuns == 2

\* The list _remove_rpm is given (the head of rpm_packages['ceph']).
RemoveList == <<"ceph", "ceph-test">>
RemovePkgs == {RemoveList[i] : i \in 1..Len(RemoveList)}

\* The projects remove_sources passes to _remove_sources_list_rpm.
SourceProjects == {"ceph", "calamari"}

\* What is on the remote: the listed packages installed, whether packages of
\* the project's repository and of ceph_extras are installed, and whether
\* /etc/zypp/repos.d/{proj}.repo, /var/lib/{proj}, /var/log/{proj} exist.
HostStates == [pkgs : SUBSET RemovePkgs,
               repo_pkgs : BOOLEAN, extras_pkgs : BOOLEAN,
               repo_file : BOOLEAN, lib_dir : BOOLEAN, log_dir : BOOLEAN]

CleanHost == [pkgs |-> {}, repo_pkgs |-> FALSE, extras_pkgs |-> FALSE,
              repo_file |-> FALSE, lib_dir |-> FALSE, log_dir |-> FALSE]

\* Exit statuses of `zypper remove pkg`: 0, an error, or 104 (nothing by
\* that name to remove; some versions exit 0 there).
ZypperRemoveStatus(installed) == IF installed THEN {0, 4} ELSE {0, 104}

\* Exit statuses of `zypper rm $(zypper packages -r repo ...)`: with nothing
\* listed, zypper rm has no argument and fails.
ZypperRmRepoStatus(present) == IF present THEN {0, 4} ELSE {4}

\* Exit statuses of `rm -f path` / `rm -fr path`.
RmStatus(present) == IF present THEN {0, 1} ELSE {0}

\* A command line without its trailing `|| true`.
WithoutOrTrue(status) == status

\* The exit status of `command || true`.
OrTrue(status) == 0

\* The commands of _remove_sources_list_rpm, in order: the part of the remote
\* each acts on.
SourceSteps == <<"repo_pkgs", "extras_pkgs", "repo_file", "lib_dir", "log_dir">>

\* The second command is run for project 'ceph' only.
StepRuns(proj, i) == SourceSteps[i] # "extras_pkgs" \/ proj = "ceph"

\* The next command of _remove_sources_list_rpm from position i on, or
\* Len(SourceSteps) + 1 when there is none.
RECURSIVE NextStep(_, _)
NextStep(proj, i) ==
    IF i > Len(SourceSteps) \/ StepRuns(proj, i) THEN i ELSE NextStep(proj, i + 1)

HostStart(st) ==
    [st |-> st, fn |-> "none", op |-> "none", proj |-> "ceph", step |-> 1, outcome |-> "none",
     nonzero |-> FALSE, runs |-> 0, start |-> st, after1 |-> st, outcome1 |-> "none"]

HostIdle == host = HostStart(CleanHost)

\* A call of one of the two functions ends with outcome o on state st.
HostEnd(st, o) ==
    [host EXCEPT !.st = st, !.op = "none", !.outcome = o, !.runs = @ + 1,
                 !.after1 = IF host.runs = 0 THEN st ELSE @,
                 !.outcome1 = IF host.runs = 0 THEN o ELSE @]

\* ------------------------------------------- the install action on a remote

\* _get_os_version: version_alias.keys()
version_alias == {"11", "12", "13.1"}

\* What `lsb_release -is` and `lsb_release -rs` can print on a remote.
LsbNames == os_alias \cup {"Ubuntu"}
LsbVersions == version_alias \cup {"14.04"}

\* The packages of the two install loops (the head of rpm, and of
\* rpm_extras_packages).
InstallList == <<"ceph", "ceph-test">>
ExtrasList == <<"rbd-kmp-default">>

\* The remote.run calls of _downloadISOAddRepo(remote, baseurl, reponame), in
\* order.  `reads` leaves the remote as it is; `caught` is run inside a try
\* whose handler may swallow the failure.
DownloadISOAddRepo(reponame) ==
    <<[cmd |-> "zypper removerepo", arg |-> reponame, reads |-> FALSE, caught |-> TRUE],
      [cmd |-> "wget -O- | grep", arg |-> reponame, reads |-> TRUE, caught |-> FALSE],
      [cmd |-> "rm iso", arg |-> reponame, reads |-> FALSE, caught |-> TRUE],
      [cmd |-> "wget iso -P /tmp", arg |-> reponame, reads |-> FALSE, caught |-> FALSE],
      [cmd |-> "zypper ar", arg |-> reponame, reads |-> FALSE, caught |-> FALSE],
      [cmd |-> "zypper refresh", arg |-> reponame, reads |-> FALSE, caught |-> FALSE]>>

\* _setRepoPriority(remote, reponame, pnum)
SetRepoPriority(reponame) ==
    <<[cmd |-> "zypper mr -p", arg |-> reponame, reads |-> FALSE, caught |-> FALSE],
      [cmd |-> "zypper ref -f", arg |-> reponame, reads |-> FALSE, caught |-> FALSE]>>

\* for pkg in rpm: zypper in pkg;
\* for pkg in rpm_extras_packages: zypper in -r ceph_extras pkg
ZypperIn(list, cmd) ==
    [i \in 1..Len(list) |-> [cmd |-> cmd, arg |-> list[i], reads |-> FALSE, caught |-> FALSE]]

\* The two probes of _get_os_version.
LsbReleaseIs == [cmd |-> "lsb_release -is", arg |-> "", reads |-> TRUE, caught |-> FALSE]
LsbReleaseRs == [cmd |-> "lsb_release -rs", arg |-> "", reads |-> TRUE, caught |-> FALSE]

\* Everything _update_rpm_package_list_and_install runs after _get_os_version.
InstallCommands ==
    DownloadISOAddRepo("ceph") \o DownloadISOAddRepo("ceph_extras")
        \o SetRepoPriority("ceph_extras")
        \o ZypperIn(InstallList, "zypper in")
        \o ZypperIn(ExtrasList, "zypper in -r ceph_extras")

InstStart(name, version) ==
    [os_name |-> name, os_version |-> version, pc |-> "lsb_release -is",
     next |-> 1, cmds |-> <<>>, exc |-> "none"]

InstIdle == inst = InstStart("SUSE LINUX", "12")

\* ------------------------------------------------- install()'s package lists

\* Most calls of install() in one process.
MaxCalls == 3

\* rpm_packages as the module is loaded.
rpm_packages ==
    [ceph |-> <<"ceph", "ceph-debuginfo", "ceph-radosgw", "ceph-test",
                "ceph-devel", "ceph-fuse", "ceph-deploy", "libcephfs1",
                "python-ceph", "rbd-fuse", "python-radosgw-agent",
                "python-virtualenv">>]

\* proj_install_rpm: the library dependencies, installed but not to be removed.
proj_install_rpm == [ceph |-> <<"librbd1", "librados2">>]

\* The list `rpm` is rebound to when config has extras.
ExtrasRpm == <<"ceph-fuse", "librbd1", "librados2", "ceph-test", "python-ceph">>

\* table.get(k, [])
GetList(table, k) == IF k \in DOMAIN table THEN table[k] ELSE <<>>

\* The configs install() is called with: extras is None or something else.
InstallConfigs == [project : Projects,
                   extra_packages : {<<>>, <<"samba">>, <<"librbd1", "samba">>},
                   extras : {NoneStr, <<"rbd-kmp-default">>}]

\* rpm = rpm_packages.get(project, []); rpm += extra_pkgs
RpmExtended(table, cfg) == GetList(table, cfg.project) \o cfg.extra_packages

\* `rpm += extra_pkgs` extends the list object in place: when the project is
\* in rpm_packages that object is the one the module-level table holds.
TableAfter(table, cfg) ==
    IF cfg.project \in DOMAIN table
    THEN [table EXCEPT ![cfg.project] = RpmExtended(table, cfg)]
    ELSE table

\* if extras is not None: rpm = ['ceph-fuse', 'librbd1', ...]
Rpm(table, cfg) ==
    IF cfg.extras # NoneStr THEN ExtrasRpm ELSE RpmExtended(table, cfg)

\* install_info = {"rpm": rpm + install_rpm}
install_info(table, cfg) == Rpm(table, cfg) \o GetList(proj_install_rpm, cfg.project)

\* remove_info = {"rpm": rpm}
remove_info(table, cfg) == Rpm(table, cfg)

ProcStart ==
    [rpm_packages |-> rpm_packages, calls |-> 0,
     config |-> [project |-> "ceph", extra_packages |-> <<>>, extras |-> NoneStr],
     install_list |-> <<>>, remove_list |-> <<>>]

ProcIdle == proc = ProcStart

\* ------------------------------------------------------------------ task()

\* The configs task() is called with, after the overrides are merged in.  A
\* key is missing (NoneStr), holds a falsy value (<<>>: '', {} or False) or a
\* truthy one.
TaskConfigs == [path : {NoneStr, <<>>, <<"/home/ubuntu/ceph">>},
                valgrind : {NoneStr, <<>>, <<"mon.a">>},
                coverage : {NoneStr, <<>>, <<"True">>},
                flavor : {NoneStr, <<"notcmalloc">>, <<"gcov">>}]

\* The flavor chosen with coverage looked at before valgrind.
task_flavor_coverage_first(cfg) ==
    IF Truthy(cfg.path) THEN <<"local">>
    ELSE IF Truthy(cfg.coverage) THEN <<"gcov">>
    ELSE IF Truthy(cfg.valgrind) THEN <<"notcmalloc">>
    ELSE GetDefault(cfg.flavor, <<"basic">>)

\* flavor = config.get('flavor', 'basic'); if config.get('path'): ... else: ...
task_flavor(cfg) ==
    IF Truthy(cfg.path) THEN <<"local">>
    ELSE IF Truthy(cfg.valgrind) THEN <<"notcmalloc">>
    ELSE IF Truthy(cfg.coverage) THEN <<"gcov">>
    ELSE GetDefault(cfg.flavor, <<"basic">>)

TaskStart(cfg) ==
    [config |-> cfg, called |-> FALSE,
     summary_flavor |-> NoneStr, install_flavor |-> NoneStr]

TaskIdle ==
    tk = TaskStart([path |-> NoneStr, valgrind |-> NoneStr,
                    coverage |-> NoneStr, flavor |-> NoneStr])

\* ---------------------------------------------------------- upgrade_common

\* The remotes of the cluster upgrade_common runs on.
UpRemotes == {"r1", "r2"}

\* The keys that name the upgrade target, and the keys a node config or the
\* install overrides can hold.
RefKeys == {"sha1", "tag", "branch"}
UpKeys == RefKeys \cup {"flavor"}

\* A config entry that is None (`all:` with nothing under it).
NoneNode == [k \in {"<None>"} |-> "<None>"]

\* The node configs and the install overrides: every value of a node config
\* is "node", every value of the overrides "override".
Nodes == Dicts({"sha1", "tag", "flavor"}, {"node"}) \cup {NoneNode}
Overrides == Dicts({"tag", "branch", "flavor"}, {"override"})

\* `not node`
Falsy(node) == node = NoneNode \/ DOMAIN node = {}

\* teuthology.deep_merge(a, b): the keys of b are written into a; `winner`
\* says whose value stays for a key both hold.
deep_merge(a, b, winner) ==
    [k \in DOMAIN a \cup DOMAIN b |->
        IF k \in DOMAIN a /\ (k \notin DOMAIN b \/ winner = "a") THEN a[k] ELSE b[k]]

\* this_overrides = copy.deepcopy(install_overrides); if 'sha1' in node or
\* 'tag' in node or 'branch' in node: pop 'sha1', 'tag' and 'branch'.
this_overrides(node, install_overrides) ==
    IF RefKeys \cap DOMAIN node # {}
    THEN [k \in DOMAIN install_overrides \ RefKeys |-> install_overrides[k]]
    ELSE install_overrides

\* The role loop of `build a normalized remote -> config dict` from position
\* i of config.keys() on: a remote already in the dict is skipped.
RECURSIVE RoleRemotes(_, _, _, _)
RoleRemotes(order, remote_of, i, acc) ==
    IF i > Len(order) THEN acc
    ELSE LET role == order[i]
             remote == remote_of[role]
         IN  IF remote \in DOMAIN acc
             THEN RoleRemotes(order, remote_of, i + 1, acc)
             ELSE RoleRemotes(order, remote_of, i + 1,
                      [r \in DOMAIN acc \cup {remote} |->
                          IF r = remote THEN role ELSE acc[r]])

\* remotes: for each remote, the key of config whose entry is its node.
BuildRemotes(in) ==
    IF "all" \in DOMAIN in.nodes
    THEN [r \in UpRemotes |-> "all"]
    ELSE RoleRemotes(in.order, in.remote_of, 1, <<>>)

\* The calls of upgrade_common: config entries (`all`, roles, or `all` next
\* to a role), config.keys() in the order the dict yields them, the remote
\* of each role, and the install overrides of the project.
UpInputs ==
    LET remote_ofs == {[mon |-> "r1", osd |-> r] : r \in UpRemotes}
        where(ro) == [role \in RoleNames |-> IF role = "mon.a" THEN ro.mon ELSE ro.osd]
    IN  {[nodes |-> [k \in {"all"} |-> n], order |-> <<"all">>,
          remote_of |-> where([mon |-> "r1", osd |-> "r2"]), overrides |-> o] :
             n \in Nodes, o \in Overrides}
        \cup
        {[nodes |-> [k \in {"all", "mon.a"} |-> IF k = "all" THEN c[1] ELSE c[2]],
          order |-> <<"mon.a", "all">>,
          remote_of |-> where([mon |-> "r1", osd |-> "r2"]), overrides |-> o] :
             c \in Nodes \X Nodes, o \in Overrides}
        \cup
        {[nodes |-> [k \in RoleNames |-> IF k = "mon.a" THEN c[1] ELSE c[2]],
          order |-> ord, remote_of |-> where(ro), overrides |-> o] :
             c \in Nodes \X Nodes, o \in Overrides, ro \in remote_ofs,
             ord \in {<<"mon.a", "osd.0">>, <<"osd.0", "mon.a">>}}

UpStart(in) ==
    [in |-> in, pc |-> "start", remotes |-> <<>>, node_of |-> <<>>, exc |-> "none"]

UpIdle ==
    up = UpStart([nodes |-> [k \in {"all"} |-> NoneNode], order |-> <<"all">>,
                  remote_of |-> [role \in RoleNames |-> "r1"], overrides |-> <<>>])

\* ------------------------------------------------------------ ship_utilities

\* The files shipped, in the order they are appended to `filenames`.
ShippedFiles == <<"testdir/valgrind.supp", "/usr/bin/daemon-helper",
                  "/usr/bin/adjust-ulimits">>

\* filenames once the first n files have been taken up.
Filenames(n) == {ShippedFiles[i] : i \in 1..n}

\* The shipping loops write file by file, each file to every remote in turn:
\* the file and the remote of the step-th write.
ShipFile(step) == ((step - 1) \div NumRemotes) + 1
ShipRemote(step) == ((step - 1) % NumRemotes) + 1
ShipSteps == Len(ShippedFiles) * NumRemotes

ShipStart ==
    [pc |-> "shipping", step |-> 1,
     files |-> [r \in Remotes |-> {}],       \* what is on each remote
     filenames |-> {},
     issued |-> [r \in Remotes |-> <<>>],    \* the rm commands started on it
     running |-> {}, failed |-> {},          \* rm commands in flight / failed
     waited |-> 0,                           \* processes run.wait has waited for
     windowExit |-> "none", exc |-> "none"]

ShipIdle == ship = ShipStart

\* ctx.cluster.run(args=['sudo', 'rm', '-f', '--'] + list(filenames),
\* wait=False): the command is started on every remote.
cluster_run(s) ==
    [s EXCEPT !.issued = [r \in Remotes |-> Append(s.issued[r], s.filenames)],
              !.running = Remotes,
              !.pc = "wait"]

\* ---------------------------------------------------------------- Salt.__ping

\* safe_while(sleep=5, tries=10, action=ping_cmd)
PingSleep == 5
PingTries == 10

\* What `salt ... test.ping` can print: one answer per minion that is
\* addressed, up to one more minion than the cluster has remotes.
PingOutputs == UNION {[1..n -> {"True", "False"}] : n \in 0..(NumRemotes + 1)}

\* len(re.findall('True', output.getvalue()))
Responded(output) == Cardinality({i \in DOMAIN output : output[i] = "True"})

\* ping_minion expects 1 answer, ping_minions len(self.remotes).
PingExpected(fn) == IF fn = "ping_minion" THEN 1 ELSE NumRemotes

\* Before the with-block is entered.  sleep_first: whether safe_while sleeps
\* before the first try as well.
PingStart(fn, sleep_first) ==
    [fn |-> fn, expected |-> PingExpected(fn), sleep_first |-> sleep_first,
     pc |-> "proceed", counter |-> 0, clock |-> 0, times |-> <<>>,
     output |-> <<>>, responded |-> 0, matched |-> FALSE, exc |-> "none"]

PingIdle == ping = PingStart("ping_minion", FALSE)

\* ------------------------------------------------------------- CephAnsible

\* The vars a job may pass to the task; "False" is the one falsy value.
AnsVarKeys == {"ceph_dev", "ceph_dev_key", "ceph_dev_branch",
               "osd_auto_discovery", "monitor_interface"}
AnsVars == Dicts(AnsVarKeys, {"user", "False"})

\* A task config: the keys it holds (`has`) and, where it holds 'vars', the
\* vars mapping.  NoVars stands for the missing entry.
NoVars == [k \in {"<none>"} |-> "<none>"]
AnsConfigs ==
    {[has |-> h, vars |-> v] :
         h \in SUBSET {"playbook", "repo"}, v \in {NoVars}}
    \cup {[has |-> h \cup {"vars"}, vars |-> v] :
         h \in SUBSET {"playbook", "repo"}, v \in AnsVars}

\* ctx.config: the run's branch may be set or not.
AnsCtxConfigs == Dicts({"branch"}, {"wip-branch"})

\* Task.__init__ keeps the mapping it is given as self.config.
TaskInit(cfg) == cfg

\* `self.config or dict()`: an empty mapping is falsy, and the right-hand
\* side is a new dict that is not self.config.
Aliased(self_config) == self_config.has # {}

\* ctx.config.get('branch', 'master')
CtxBranch(ctx_config) ==
    IF "branch" \in DOMAIN ctx_config THEN ctx_config["branch"] ELSE "master"

\* Lines 84-89 on the dict `vars`: each default goes in only where the key is
\* missing.
VarsDefaults(vs, ctx_config) ==
    [k \in DOMAIN vs \cup {"ceph_dev", "ceph_dev_key", "ceph_dev_branch"} |->
        IF k \in DOMAIN vs THEN vs[k]
        ELSE IF k = "ceph_dev" THEN "True"
        ELSE IF k = "ceph_dev_key"
             THEN "https://download.ceph.com/keys/autobuild.asc"
        ELSE CtxBranch(ctx_config)]

\* The local `config` after lines 80-89.
LocalConfig(cfg, ctx_config) ==
    [has |-> cfg.has \cup {"vars"},
     vars |-> VarsDefaults(IF "vars" \in cfg.has THEN cfg.vars
                           ELSE << >>, ctx_config)]

\* self.config after __init__: 'repo' is written through self.config (77);
\* 'vars' and its defaults are written through the local `config` (82-89) and
\* reach self.config only when the two are the same dict.
SelfConfigAfter(cfg, ctx_config) ==
    LET own == TaskInit(cfg)
        withRepo == [own EXCEPT !.has = @ \cup {"repo"}]
    IN  IF Aliased(own)
        THEN [withRepo EXCEPT !.has = @ \cup {"vars"},
                              !.vars = LocalConfig(own, ctx_config).vars]
        ELSE withRepo

\* self.config.get('vars', dict())
ExtraVars(self_config) ==
    IF "vars" \in self_config.has THEN self_config.vars ELSE << >>

\* get_host_vars: the keys of host_vars.
HostVarKeys(extra_vars) ==
    (IF "osd_auto_discovery" \notin DOMAIN extra_vars
        \/ extra_vars["osd_auto_discovery"] = "False"
     THEN {"devices"} ELSE {})
    \cup (IF "monitor_interface" \notin DOMAIN extra_vars
          THEN {"monitor_interface"} ELSE {})
    \cup (IF "public_network" \notin DOMAIN extra_vars
          THEN {"public_network"} ELSE {})

\* Before the constructor has run.
AnsStart(cfg, ctx_config) ==
    [pc |-> "new", given |-> cfg, ctx_config |-> ctx_config,
     config |-> cfg, playbook |-> "none", extra_vars |-> NoVars,
     host_vars |-> {}, asked |-> {}]

AnsIdle == ans = AnsStart([has |-> {}, vars |-> NoVars], << >>)

\* ---------------------------------------------------------------- fan-out

\* teuthology.misc.get_system_type(remote): the package family of the host.
get_system_type(os) == IF os \in os_alias THEN "rpm" ELSE "deb"

Task(stage, r, arg) == <<stage, r, arg>>
TasksOf(S, stage) == {t \in S : t[1] = stage}
Spawned == running \cup succeeded \cup failed

\* parallel.spawn(func, *args): the action is dispatched at once.
spawn(ts) == running' = running \cup ts

\* parallel.__exit__ waits for every spawned action before it returns.
ParallelJoined(stage) == TasksOf(running, stage) = {}

\* parallel.__exit__ raises when the with-body or any spawned action raised.
ParallelRaises(stage) == bodyExc \/ TasksOf(failed, stage) # {}

\* The spawn loop `for remote in ctx.cluster.remotes.iterkeys()` is over.
LoopDone == nextIdx > NumRemotes \/ bodyExc

\* Leaving install() with exception e.
Raise(e) == /\ pc' = "idle"
            /\ exc' = e
            /\ result' = "raised"

\* The with-block of `stage` ends: the stage has returned or raised.
Join(stage) == /\ returned' = returned \cup {stage}
               /\ reported' = [reported EXCEPT ![stage] = TasksOf(failed, stage)]
               /\ bodyExc' = FALSE

\* ------------------------------------------------------------- install()

\* install() yielding to the caller before it has called install_packages.
install_yields_first ==
    /\ pc = "idle" /\ result = "none"
    /\ pc' = "active"
    /\ UNCHANGED <<osName, project, nextIdx, bodyExc, running, succeeded, failed,
                   reported, returned, windowExit, teardownEntries, exc, result>>
    /\ UNCHANGED <<cfgVars, auxVars, soloVars, lateVars>>

\* install() is called: the package lists are built and install_packages
\* opens its parallel block.
install ==
    /\ pc = "idle" /\ result = "none"
    /\ pc' = "install_packages"
    /\ nextIdx' = 1
    /\ UNCHANGED <<osName, project, bodyExc, running, succeeded, failed, reported,
                   returned, windowExit, teardownEntries, exc, result>>
    /\ UNCHANGED <<cfgVars, auxVars, soloVars, lateVars>>

\* install_packages' loop giving up once an action has failed.
install_packages_stops_on_failure ==
    /\ pc = "install_packages" /\ ~LoopDone
    /\ IF TasksOf(failed, "install_packages") = {}
       THEN /\ spawn({Task("install_packages", nextIdx, "rpm")})
            /\ nextIdx' = nextIdx + 1
       ELSE /\ nextIdx' = NumRemotes + 1
            /\ UNCHANGED running
    /\ UNCHANGED <<osName, project, pc, bodyExc, succeeded, failed, reported,
                   returned, windowExit, teardownEntries, exc, result>>
    /\ UNCHANGED <<cfgVars, auxVars, soloVars, lateVars>>

\* One turn of install_packages' loop: p.spawn(..., pkgs['rpm'], config).
install_packages ==
    /\ pc = "install_packages" /\ ~LoopDone
    /\ spawn({Task("install_packages", nextIdx, "rpm")})
    /\ nextIdx' = nextIdx + 1
    /\ UNCHANGED <<osName, project, pc, bodyExc, succeeded, failed, reported,
                   returned, windowExit, teardownEntries, exc, result>>
    /\ UNCHANGED <<cfgVars, auxVars, soloVars, lateVars>>

\* The install action without _get_os_version's assert on the OS name.
install_without_os_assert(t) ==
    /\ t \in TasksOf(running, "install_packages")
    /\ running' = running \ {t}
    /\ \/ /\ succeeded' = succeeded \cup {t}
          /\ UNCHANGED failed
       \/ /\ failed' = failed \cup {t}
          /\ UNCHANGED succeeded
    /\ UNCHANGED <<osName, project, pc, nextIdx, bodyExc, reported, returned,
                   windowExit, teardownEntries, exc, result>>
    /\ UNCHANGED <<cfgVars, auxVars, soloVars, lateVars>>

\* The install action on one remote: _get_os_version asserts that the OS name
\* is known; every later command raises when it exits non-zero.
_update_rpm_package_list_and_install(t) ==
    /\ t \in TasksOf(running, "install_packages")
    /\ running' = running \ {t}
    /\ \/ /\ osName[t[2]] \in os_alias
          /\ succeeded' = succeeded \cup {t}
          /\ UNCHANGED failed
       \/ /\ failed' = failed \cup {t}
          /\ UNCHANGED succeeded
    /\ UNCHANGED <<osName, project, pc, nextIdx, bodyExc, reported, returned,
                   windowExit, teardownEntries, exc, result>>
    /\ UNCHANGED <<cfgVars, auxVars, soloVars, lateVars>>

\* The finally block starting with remove_sources.
EnterFinallySourcesFirst ==
    /\ pc' = "remove_sources"
    /\ nextIdx' = 1
    /\ teardownEntries' = teardownEntries + 1

\* The finally block is entered: remove_packages opens its parallel block.
EnterFinally ==
    /\ pc' = "remove_packages"
    /\ nextIdx' = 1
    /\ teardownEntries' = teardownEntries + 1

\* install_packages called inside the try: its failure enters the finally
\* block.
install_packages_exit_inside_try ==
    /\ pc = "install_packages" /\ LoopDone
    /\ ParallelJoined("install_packages")
    /\ Join("install_packages")
    /\ IF ParallelRaises("install_packages")
       THEN /\ exc' = "CommandFailedError"
            /\ EnterFinally
            /\ UNCHANGED result
       ELSE /\ pc' = "active"
            /\ UNCHANGED <<exc, result, nextIdx, teardownEntries>>
    /\ UNCHANGED <<osName, project, running, succeeded, failed, windowExit>>
    /\ UNCHANGED <<cfgVars, auxVars, soloVars, lateVars>>

\* install_packages returns or raises; it is called outside the try, so a
\* failure leaves install() at once, and success yields to the caller.
install_packages_exit ==
    /\ pc = "install_packages" /\ LoopDone
    /\ ParallelJoined("install_packages")
    /\ Join("install_packages")
    /\ IF ParallelRaises("install_packages")
       THEN Raise("CommandFailedError")
       ELSE /\ pc' = "active"
            /\ UNCHANGED <<exc, result>>
    /\ UNCHANGED <<osName, project, nextIdx, running, succeeded, failed,
                   windowExit, teardownEntries>>
    /\ UNCHANGED <<cfgVars, auxVars, soloVars, lateVars>>

\* The caller's with-body ends normally.
window_return ==
    /\ pc = "active"
    /\ windowExit' = "returned"
    /\ EnterFinally
    /\ UNCHANGED <<osName, project, bodyExc, running, succeeded, failed, reported,
                   returned, exc, result>>
    /\ UNCHANGED <<cfgVars, auxVars, soloVars, lateVars>>

\* The yield outside any try: an exception of the caller's with-body leaves
\* install() at once.
window_raise_unprotected ==
    /\ pc = "active"
    /\ windowExit' = "raised"
    /\ Raise("WindowError")
    /\ UNCHANGED <<osName, project, nextIdx, bodyExc, running, succeeded, failed,
                   reported, returned, teardownEntries>>
    /\ UNCHANGED <<cfgVars, auxVars, soloVars, lateVars>>

\* The caller's with-body raises: the exception is thrown into the generator
\* at the yield, inside the try.
window_raise ==
    /\ pc = "active"
    /\ windowExit' = "raised"
    /\ exc' = "WindowError"
    /\ EnterFinally
    /\ UNCHANGED <<osName, project, bodyExc, running, succeeded, failed, reported,
                   returned, result>>
    /\ UNCHANGED <<cfgVars, auxVars, soloVars, lateVars>>

\* install() ends after the finally block: the pending exception, if any,
\* goes on to the caller.
Finish ==
    /\ pc' = "idle"
    /\ result' = IF exc = "none" THEN "returned" ELSE "raised"
    /\ UNCHANGED exc

\* One turn of remove_packages' loop: pkgs[system_type] is a KeyError when
\* remove_info has no list for the remote's system type.
remove_packages ==
    /\ pc = "remove_packages" /\ ~LoopDone
    /\ LET system_type == get_system_type(osName[nextIdx]) IN
       IF system_type \in info_keys
       THEN /\ spawn({Task("remove_packages", nextIdx, system_type)})
            /\ nextIdx' = nextIdx + 1
            /\ UNCHANGED bodyExc
       ELSE /\ bodyExc' = TRUE
            /\ UNCHANGED <<running, nextIdx>>
    /\ UNCHANGED <<osName, project, pc, succeeded, failed, reported, returned,
                   windowExit, teardownEntries, exc, result>>
    /\ UNCHANGED <<cfgVars, auxVars, soloVars, lateVars>>

\* The remove action on one remote: `zypper remove pkg` for each package,
\* raising when one exits non-zero.
_remove_rpm(t) ==
    /\ t \in TasksOf(running, "remove_packages")
    /\ running' = running \ {t}
    /\ \/ /\ succeeded' = succeeded \cup {t}
          /\ UNCHANGED failed
       \/ /\ failed' = failed \cup {t}
          /\ UNCHANGED succeeded
    /\ UNCHANGED <<osName, project, pc, nextIdx, bodyExc, reported, returned,
                   windowExit, teardownEntries, exc, result>>
    /\ UNCHANGED <<cfgVars, auxVars, soloVars, lateVars>>

\* remove_packages returns or raises inside the finally block: an exception
\* leaves the block, and the statements after the call are not run.
remove_packages_exit ==
    /\ pc = "remove_packages" /\ LoopDone
    /\ ParallelJoined("remove_packages")
    /\ Join("remove_packages")
    /\ IF ParallelRaises("remove_packages")
       THEN /\ Raise(IF bodyExc THEN "KeyError" ELSE "CommandFailedError")
            /\ UNCHANGED nextIdx
       ELSE /\ pc' = "remove_sources"
            /\ nextIdx' = 1
            /\ UNCHANGED <<exc, result>>
    /\ UNCHANGED <<osName, project, running, succeeded, failed,
                   windowExit, teardownEntries>>
    /\ UNCHANGED <<cfgVars, auxVars, soloVars, lateVars>>

\* One turn of remove_sources' loop: two spawns, for the project and for
\* 'calamari'.
remove_sources ==
    /\ pc = "remove_sources" /\ ~LoopDone
    /\ spawn({Task("remove_sources", nextIdx, project),
              Task("remove_sources", nextIdx, "calamari")})
    /\ nextIdx' = nextIdx + 1
    /\ UNCHANGED <<osName, project, pc, bodyExc, succeeded, failed, reported,
                   returned, windowExit, teardownEntries, exc, result>>
    /\ UNCHANGED <<cfgVars, auxVars, soloVars, lateVars>>

\* The source removal on one remote: every command ends in `|| true`, so none
\* exits non-zero.
_remove_sources_list_rpm(t) ==
    /\ t \in TasksOf(running, "remove_sources")
    /\ running' = running \ {t}
    /\ succeeded' = succeeded \cup {t}
    /\ UNCHANGED <<osName, project, pc, nextIdx, bodyExc, failed, reported, returned,
                   windowExit, teardownEntries, exc, result>>
    /\ UNCHANGED <<cfgVars, auxVars, soloVars, lateVars>>

\* remove_sources returns or raises; then `if project == 'ceph': purge_data`.
remove_sources_exit ==
    /\ pc = "remove_sources" /\ LoopDone
    /\ ParallelJoined("remove_sources")
    /\ Join("remove_sources")
    /\ IF ParallelRaises("remove_sources")
       THEN /\ Raise("CommandFailedError")
            /\ UNCHANGED nextIdx
       ELSE IF project = "ceph"
            THEN /\ pc' = "purge_data"
                 /\ nextIdx' = 1
                 /\ UNCHANGED <<exc, result>>
            ELSE /\ Finish
                 /\ UNCHANGED nextIdx
    /\ UNCHANGED <<osName, project, running, succeeded, failed,
                   windowExit, teardownEntries>>
    /\ UNCHANGED <<cfgVars, auxVars, soloVars, lateVars>>

\* One turn of purge_data's loop.
purge_data ==
    /\ pc = "purge_data" /\ ~LoopDone
    /\ spawn({Task("purge_data", nextIdx, "/var/lib/ceph")})
    /\ nextIdx' = nextIdx + 1
    /\ UNCHANGED <<osName, project, pc, bodyExc, succeeded, failed, reported,
                   returned, windowExit, teardownEntries, exc, result>>
    /\ UNCHANGED <<cfgVars, auxVars, soloVars, lateVars>>

\* The purge on one remote: the exit status is that of the last `rm -rf`.
_purge_data(t) ==
    /\ t \in TasksOf(running, "purge_data")
    /\ running' = running \ {t}
    /\ \/ /\ succeeded' = succeeded \cup {t}
          /\ UNCHANGED failed
       \/ /\ failed' = failed \cup {t}
          /\ UNCHANGED succeeded
    /\ UNCHANGED <<osName, project, pc, nextIdx, bodyExc, reported, returned,
                   windowExit, teardownEntries, exc, result>>
    /\ UNCHANGED <<cfgVars, auxVars, soloVars, lateVars>>

\* purge_data returning without waiting for the actions it spawned.
purge_data_exit_without_join ==
    /\ pc = "purge_data" /\ LoopDone
    /\ Join("purge_data")
    /\ IF ParallelRaises("purge_data")
       THEN Raise("CommandFailedError")
       ELSE Finish
    /\ UNCHANGED <<osName, project, nextIdx, running, succeeded, failed,
                   windowExit, teardownEntries>>
    /\ UNCHANGED <<cfgVars, auxVars, soloVars, lateVars>>

\* purge_data returns or raises: the end of the finally block.
purge_data_exit ==
    /\ pc = "purge_data" /\ LoopDone
    /\ ParallelJoined("purge_data")
    /\ Join("purge_data")
    /\ IF ParallelRaises("purge_data")
       THEN Raise("CommandFailedError")
       ELSE Finish
    /\ UNCHANGED <<osName, project, nextIdx, running, succeeded, failed,
                   windowExit, teardownEntries>>
    /\ UNCHANGED <<cfgVars, auxVars, soloVars, lateVars>>

\* ------------------------------------------------------------ the lifecycle

CfgIdle == /\ config = EmptyConfig
           /\ roles = <<>>
           /\ key = "branch"
           /\ value = None
           /\ called = FALSE

AuxIdle == UrlIdle /\ PollIdle /\ HostIdle

SoloIdle == InstIdle /\ ProcIdle /\ TaskIdle

LateIdle == UpIdle /\ ShipIdle /\ PingIdle /\ AnsIdle

LifeIdle == /\ pc = "idle"
            /\ nextIdx = 1
            /\ bodyExc = FALSE
            /\ running = {}
            /\ succeeded = {}
            /\ failed = {}
            /\ reported = [s \in StageSet |-> {}]
            /\ returned = {}
            /\ windowExit = "none"
            /\ teardownEntries = 0
            /\ exc = "none"
            /\ result = "none"

Init == /\ osName \in [Remotes -> OsNames]
        /\ project \in Projects
        /\ LifeIdle
        /\ CfgIdle
        /\ AuxIdle
        /\ SoloIdle
        /\ LateIdle

Next == \/ install
        \/ install_packages
        \/ \E t \in running : _update_rpm_package_list_and_install(t)
        \/ install_packages_exit
        \/ window_return
        \/ window_raise
        \/ remove_packages
        \/ \E t \in running : _remove_rpm(t)
        \/ remove_packages_exit
        \/ remove_sources
        \/ \E t \in running : _remove_sources_list_rpm(t)
        \/ remove_sources_exit
        \/ purge_data
        \/ \E t \in running : _purge_data(t)
        \/ purge_data_exit

Spec == Init /\ [][Next]_vars

\* ------------------------------------------------- the config lookup alone

InitResolve == /\ osName = [r \in Remotes |-> "SUSE LINUX"]
               /\ project = "ceph"
               /\ LifeIdle
               /\ config \in {c \in Configs : ~c.hasAll => c.all = <<>>}
               /\ roles \in RoleLists
               /\ key \in Keys
               /\ value = None
               /\ called = FALSE
               /\ AuxIdle
               /\ SoloIdle
               /\ LateIdle

Resolve == /\ ~called
           /\ called' = TRUE
           /\ value' = _get_config_value_for_remote(config, roles, key)
           /\ UNCHANGED <<config, roles, key>>
           /\ UNCHANGED <<lifeVars, auxVars, soloVars, lateVars>>

NextResolve == Resolve

SpecResolve == InitResolve /\ [][NextResolve]_vars

\* ------------------------------------------------------ _get_baseurl alone

InitUrl == /\ osName = [r \in Remotes |-> "SUSE LINUX"]
           /\ project = "ceph"
           /\ LifeIdle
           /\ CfgIdle
           /\ u \in {UrlStart(in) : in \in UrlInputs}
           /\ PollIdle
           /\ HostIdle
           /\ SoloIdle
           /\ LateIdle

\* baseparms = _get_baseurlinfo_and_dist(ctx, remote, config)
_get_baseurlinfo_and_dist ==
    /\ u.pc = "start"
    /\ u' = [u EXCEPT !.pc = "baseparms", !.baseparms = baseurlinfo_and_dist(u.in)]
    /\ UNCHANGED <<lifeVars, cfgVars, poll, host, soloVars, lateVars>>

\* base_url = '...'.format(...); return base_url
_get_baseurl ==
    /\ u.pc = "baseparms"
    /\ u' = [u EXCEPT !.pc = "base_url", !.base_url = base_url_format(u.in, u.baseparms)]
    /\ UNCHANGED <<lifeVars, cfgVars, poll, host, soloVars, lateVars>>

\* The caller's fetch of the version file:
\* remote.run(args=['wget', '-q', '-O-', base_url + '/version'], ...)
fetch_version ==
    /\ u.pc = "base_url"
    /\ u' = [u EXCEPT !.pc = "probed", !.probed = u.base_url \o <<"/version">>]
    /\ UNCHANGED <<lifeVars, cfgVars, poll, host, soloVars, lateVars>>

NextUrl == \/ _get_baseurlinfo_and_dist
           \/ _get_baseurl
           \/ fetch_version

SpecUrl == InitUrl /\ [][NextUrl]_vars

\* ------------------------------------------------- version-fetch loop alone

InitPoll == /\ osName = [r \in Remotes |-> "SUSE LINUX"]
            /\ project = "ceph"
            /\ LifeIdle
            /\ CfgIdle
            /\ UrlIdle
            /\ poll \in {PollStart(fn, w, c) : fn \in PollFns, w \in BOOLEAN, c \in Contents}
            /\ HostIdle
            /\ SoloIdle
            /\ LateIdle

\* The build publishes the version file on the repository host.
publish ==
    /\ ~poll.published
    /\ poll' = [poll EXCEPT !.published = TRUE]
    /\ UNCHANGED <<lifeVars, cfgVars, u, host, soloVars, lateVars>>

\* r = remote.run(args=['wget', '-q', '-O-', base_url + '/version'],
\*                stdout=StringIO(), check_status=False)
poll_fetch ==
    /\ poll.pc = "fetch"
    /\ poll.published \/ poll.failures < MaxFailures
    /\ poll' = [poll EXCEPT
                   !.pc = "fetched",
                   !.fetches = @ + 1,
                   !.fetched = @ \cup {poll.base_url \o <<"/version">>},
                   !.exitstatus = IF poll.published THEN 0 ELSE 1,
                   !.stdout = IF poll.published THEN poll.content ELSE <<>>,
                   !.failures = IF poll.published THEN @ ELSE @ + 1]
    /\ UNCHANGED <<lifeVars, cfgVars, u, host, soloVars, lateVars>>

\* The retry going back to the fetch without time.sleep(15).
poll_retry_without_sleep ==
    /\ poll.pc = "fetched" /\ poll.exitstatus # 0 /\ poll.wait
    /\ poll' = [poll EXCEPT !.pc = "fetch"]
    /\ UNCHANGED <<lifeVars, cfgVars, u, host, soloVars, lateVars>>

\* The retry giving up after the sleep instead of fetching again.
poll_retry_gives_up ==
    /\ poll.pc = "fetched" /\ poll.exitstatus # 0 /\ poll.wait
    /\ poll' = [poll EXCEPT !.pc = "gave up",
                            !.sleeps = @ + 1,
                            !.clock = @ + SleepSeconds]
    /\ UNCHANGED <<lifeVars, cfgVars, u, host, soloVars, lateVars>>

\* if r.exitstatus != 0: if wait: time.sleep(15); continue
poll_retry ==
    /\ poll.pc = "fetched" /\ poll.exitstatus # 0 /\ poll.wait
    /\ poll' = [poll EXCEPT !.pc = "fetch",
                            !.sleeps = @ + 1,
                            !.clock = @ + SleepSeconds]
    /\ UNCHANGED <<lifeVars, cfgVars, u, host, soloVars, lateVars>>

\* The raise not guarded by `if wait`.
poll_raise_despite_wait ==
    /\ poll.pc = "fetched" /\ poll.exitstatus # 0
    /\ poll' = [poll EXCEPT !.pc = "raised", !.err_url = poll.base_url]
    /\ UNCHANGED <<lifeVars, cfgVars, u, host, soloVars, lateVars>>

\* raise VersionNotFoundError(base_url) in _block_looking_for_package_version,
\* raise VersionNotFoundError("%s/version" % base_url) in the deb installer.
poll_raise ==
    /\ poll.pc = "fetched" /\ poll.exitstatus # 0 /\ ~poll.wait
    /\ poll' = [poll EXCEPT
                   !.pc = "raised",
                   !.err_url = IF poll.fn = "block"
                               THEN poll.base_url
                               ELSE poll.base_url \o <<"/version">>]
    /\ UNCHANGED <<lifeVars, cfgVars, u, host, soloVars, lateVars>>

\* break; version = r.stdout.getvalue().strip()
poll_return ==
    /\ poll.pc = "fetched" /\ poll.exitstatus = 0
    /\ poll' = [poll EXCEPT !.pc = "returned", !.version = Strip(poll.stdout)]
    /\ UNCHANGED <<lifeVars, cfgVars, u, host, soloVars, lateVars>>

NextPoll == \/ publish
            \/ poll_fetch
            \/ poll_retry
            \/ poll_raise
            \/ poll_return

SpecPoll == InitPoll /\ [][NextPoll]_vars

\* The loop is straight-line code of one thread: a fetch that can be made is
\* made, time.sleep(15) ends, and the statements after the fetch are run.
\* Nothing makes the build publish the version file.
SpecPollLive == /\ SpecPoll
                /\ WF_vars(poll_fetch)
                /\ WF_vars(poll_retry)
                /\ WF_vars(poll_raise)
                /\ WF_vars(poll_return)

\* ------------------------------------------- the removal functions alone

InitHost == /\ osName = [r \in Remotes |-> "SUSE LINUX"]
            /\ project = "ceph"
            /\ LifeIdle
            /\ CfgIdle
            /\ UrlIdle
            /\ PollIdle
            /\ host \in {HostStart(st) : st \in HostStates}
            /\ SoloIdle
            /\ LateIdle

\* _remove_rpm(ctx, config, remote, rpm) is called.
call_remove_rpm ==
    /\ host.op = "none" /\ host.runs < MaxRuns
    /\ host.runs > 0 => host.fn = "_remove_rpm"
    /\ host' = [host EXCEPT !.fn = "_remove_rpm", !.op = "_remove_rpm",
                            !.step = 1, !.outcome = "none"]
    /\ UNCHANGED <<lifeVars, cfgVars, u, poll, soloVars, lateVars>>

\* One turn of `for pkg in rpm`: remote.run of `zypper remove pkg`, which
\* raises when the command exits non-zero.
remove_rpm_pkg ==
    /\ host.op = "_remove_rpm"
    /\ LET pkg == RemoveList[host.step] IN
       \E status \in ZypperRemoveStatus(pkg \in host.st.pkgs) :
           IF status # 0
           THEN host' = [HostEnd(host.st, "raised") EXCEPT !.nonzero = TRUE]
           ELSE LET st == [host.st EXCEPT !.pkgs = @ \ {pkg}] IN
                IF host.step = Len(RemoveList)
                THEN host' = HostEnd(st, "ok")
                ELSE host' = [host EXCEPT !.st = st, !.step = @ + 1]
    /\ UNCHANGED <<lifeVars, cfgVars, u, poll, soloVars, lateVars>>

\* _remove_sources_list_rpm(remote, proj) is called.
call_remove_sources_list_rpm ==
    /\ host.op = "none" /\ host.runs < MaxRuns
    /\ \E proj \in SourceProjects :
           /\ host.runs > 0 =>
                  (host.fn = "_remove_sources_list_rpm" /\ host.proj = proj)
           /\ host' = [host EXCEPT !.fn = "_remove_sources_list_rpm",
                                   !.op = "_remove_sources_list_rpm", !.proj = proj,
                                   !.step = NextStep(proj, 1), !.outcome = "none"]
    /\ UNCHANGED <<lifeVars, cfgVars, u, poll, soloVars, lateVars>>

\* One remote.run of _remove_sources_list_rpm: the command removes what it
\* is about or fails to, and the command line ends in `|| true`.
remove_sources_command ==
    /\ host.op = "_remove_sources_list_rpm"
    /\ LET part == SourceSteps[host.step]
           statuses == IF part \in {"repo_pkgs", "extras_pkgs"}
                       THEN ZypperRmRepoStatus(host.st[part])
                       ELSE RmStatus(host.st[part])
       IN  \E status \in statuses :
               LET st == IF status = 0 THEN [host.st EXCEPT ![part] = FALSE]
                         ELSE host.st
                   next == NextStep(host.proj, host.step + 1)
               IN  IF OrTrue(status) # 0
                   THEN host' = [HostEnd(st, "raised") EXCEPT !.nonzero = TRUE]
                   ELSE IF next > Len(SourceSteps)
                        THEN host' = HostEnd(st, "ok")
                        ELSE host' = [host EXCEPT !.st = st, !.step = next]
    /\ UNCHANGED <<lifeVars, cfgVars, u, poll, soloVars, lateVars>>

NextHost == \/ call_remove_rpm
            \/ remove_rpm_pkg
            \/ call_remove_sources_list_rpm
            \/ remove_sources_command

SpecHost == InitHost /\ [][NextHost]_vars

\* ----------------------------------------------- the install action alone

InitInst == /\ osName = [r \in Remotes |-> "SUSE LINUX"]
            /\ project = "ceph"
            /\ LifeIdle
            /\ CfgIdle
            /\ AuxIdle
            /\ inst \in {InstStart(n, v) : n \in LsbNames, v \in LsbVersions}
            /\ ProcIdle
            /\ TaskIdle
            /\ LateIdle

\* r = remote.run(args=['lsb_release', '-is']); assert os_name in os_alias.keys()
get_os_name ==
    /\ inst.pc = "lsb_release -is"
    /\ \E status \in {0, 1} :
           inst' = [inst EXCEPT
               !.cmds = Append(@, LsbReleaseIs),
               !.pc = IF status # 0 \/ inst.os_name \notin os_alias
                      THEN "raised" ELSE "lsb_release -rs",
               !.exc = IF status # 0 THEN "CommandFailedError"
                       ELSE IF inst.os_name \notin os_alias THEN "AssertionError"
                       ELSE @]
    /\ UNCHANGED <<lifeVars, cfgVars, auxVars, proc, tk, lateVars>>

\* The second probe with no assert on what it prints.
get_os_version_unchecked ==
    /\ inst.pc = "lsb_release -rs"
    /\ \E status \in {0, 1} :
           inst' = [inst EXCEPT
               !.cmds = Append(@, LsbReleaseRs),
               !.pc = IF status # 0 THEN "raised" ELSE "commands",
               !.exc = IF status # 0 THEN "CommandFailedError" ELSE @]
    /\ UNCHANGED <<lifeVars, cfgVars, auxVars, proc, tk, lateVars>>

\* r = remote.run(args=['lsb_release', '-rs']);
\* assert os_version in version_alias.keys()
get_os_version ==
    /\ inst.pc = "lsb_release -rs"
    /\ \E status \in {0, 1} :
           inst' = [inst EXCEPT
               !.cmds = Append(@, LsbReleaseRs),
               !.pc = IF status # 0 \/ inst.os_version \notin version_alias
                      THEN "raised" ELSE "commands",
               !.exc = IF status # 0 THEN "CommandFailedError"
                       ELSE IF inst.os_version \notin version_alias
                            THEN "AssertionError"
                       ELSE @]
    /\ UNCHANGED <<lifeVars, cfgVars, auxVars, proc, tk, lateVars>>

\* One remote.run after _get_os_version: a non-zero exit raises, unless the
\* call is inside a try whose handler swallows it (for removerepo, when
\* stderr is the expected message; for rm, always).
install_command ==
    /\ inst.pc = "commands"
    /\ LET c == InstallCommands[inst.next] IN
       \E status \in {0, 1}, swallowed \in BOOLEAN :
           /\ swallowed => (c.caught /\ status # 0)
           /\ (c.cmd = "rm iso" /\ status # 0) => swallowed
           /\ LET raises == status # 0 /\ ~swallowed IN
              inst' = [inst EXCEPT
                  !.cmds = Append(@, c),
                  !.next = IF raises THEN @ ELSE @ + 1,
                  !.pc = IF raises THEN "raised"
                         ELSE IF inst.next = Len(InstallCommands) THEN "done"
                         ELSE @,
                  !.exc = IF raises THEN "CommandFailedError" ELSE @]
    /\ UNCHANGED <<lifeVars, cfgVars, auxVars, proc, tk, lateVars>>

NextInst == \/ get_os_name
            \/ get_os_version
            \/ install_command

SpecInst == InitInst /\ [][NextInst]_vars

\* ------------------------------------------ install()'s package lists alone

InitProc == /\ osName = [r \in Remotes |-> "SUSE LINUX"]
            /\ project = "ceph"
            /\ LifeIdle
            /\ CfgIdle
            /\ AuxIdle
            /\ InstIdle
            /\ ProcIdle
            /\ TaskIdle
            /\ LateIdle

\* install(ctx, config) up to the call of install_packages: the lists handed
\* to install_packages and, at teardown, to remove_packages.
install_lists ==
    /\ proc.calls < MaxCalls
    /\ \E cfg \in InstallConfigs :
           proc' = [rpm_packages |-> TableAfter(proc.rpm_packages, cfg),
                    calls |-> proc.calls + 1,
                    config |-> cfg,
                    install_list |-> install_info(proc.rpm_packages, cfg),
                    remove_list |-> remove_info(proc.rpm_packages, cfg)]
    /\ UNCHANGED <<lifeVars, cfgVars, auxVars, inst, tk, lateVars>>

NextProc == install_lists

SpecProc == InitProc /\ [][NextProc]_vars

\* ------------------------------------------------------------ task() alone

InitTask == /\ osName = [r \in Remotes |-> "SUSE LINUX"]
            /\ project = "ceph"
            /\ LifeIdle
            /\ CfgIdle
            /\ AuxIdle
            /\ InstIdle
            /\ ProcIdle
            /\ tk \in {TaskStart(cfg) : cfg \in TaskConfigs}
            /\ LateIdle

\* task(ctx, config): the flavor is chosen, recorded in ctx.summary and
\* handed to install().
task ==
    /\ ~tk.called
    /\ tk' = [tk EXCEPT !.called = TRUE,
                        !.summary_flavor = task_flavor(tk.config),
                        !.install_flavor = task_flavor(tk.config)]
    /\ UNCHANGED <<lifeVars, cfgVars, auxVars, inst, proc, lateVars>>

NextTask == task

SpecTask == InitTask /\ [][NextTask]_vars

\* ---------------------------------------------------- upgrade_common alone

InitUp == /\ osName = [r \in Remotes |-> "SUSE LINUX"]
          /\ project = "ceph"
          /\ LifeIdle
          /\ CfgIdle
          /\ AuxIdle
          /\ SoloIdle
          /\ up \in {UpStart(in) : in \in UpInputs}
          /\ ShipIdle
          /\ PingIdle
          /\ AnsIdle

\* upgrade_common up to the loop over the remotes: the asserts, the install
\* overrides, and the remote -> config dict.
upgrade_common ==
    /\ up.pc = "start"
    /\ up' = [up EXCEPT !.pc = "loop", !.remotes = BuildRemotes(up.in)]
    /\ UNCHANGED <<lifeVars, cfgVars, auxVars, soloVars, ship, ping, ans>>

\* One turn of `for remote, node in remotes.iteritems()`: the overrides are
\* merged into the node config; then `pkgs = PACKAGES[project][system_type]`
\* names a global the module does not define, which is a NameError.
upgrade_remote ==
    /\ up.pc = "loop"
    /\ \E remote \in DOMAIN up.remotes \ DOMAIN up.node_of, winner \in {"a", "b"} :
           LET entry == up.in.nodes[up.remotes[remote]]
               node == IF Falsy(entry) THEN <<>> ELSE entry
               merged == deep_merge(node, this_overrides(node, up.in.overrides), winner)
           IN  up' = [up EXCEPT
                         !.node_of = [r \in DOMAIN up.node_of \cup {remote} |->
                                         IF r = remote THEN merged ELSE up.node_of[r]],
                         !.pc = "raised",
                         !.exc = "NameError"]
    /\ UNCHANGED <<lifeVars, cfgVars, auxVars, soloVars, ship, ping, ans>>

NextUp == \/ upgrade_common
          \/ upgrade_remote

SpecUp == InitUp /\ [][NextUp]_vars

\* ---------------------------------------------------- ship_utilities alone

InitShip == /\ osName = [r \in Remotes |-> "SUSE LINUX"]
            /\ project = "ceph"
            /\ LifeIdle
            /\ CfgIdle
            /\ AuxIdle
            /\ SoloIdle
            /\ UpIdle
            /\ ShipIdle
            /\ PingIdle
            /\ AnsIdle

\* One teuthology.sudo_write_file (and, for the executables, the chmod that
\* follows it); a failure leaves ship_utilities before its try.  After the
\* last one ship_utilities yields.
ship_file ==
    /\ ship.pc = "shipping"
    /\ \E ok \in BOOLEAN :
           IF ok
           THEN ship' = [ship EXCEPT
                    !.filenames = Filenames(ShipFile(ship.step)),
                    !.files[ShipRemote(ship.step)] =
                         @ \cup {ShippedFiles[ShipFile(ship.step)]},
                    !.step = @ + 1,
                    !.pc = IF ship.step = ShipSteps THEN "active" ELSE @]
           ELSE ship' = [ship EXCEPT
                    !.filenames = Filenames(ShipFile(ship.step)),
                    !.pc = "raised",
                    !.exc = "CommandFailedError"]
    /\ UNCHANGED <<lifeVars, cfgVars, auxVars, soloVars, up, ping, ans>>

\* The enclosed block ends normally: the finally block starts the removal.
ship_window_return ==
    /\ ship.pc = "active"
    /\ ship' = cluster_run([ship EXCEPT !.windowExit = "returned"])
    /\ UNCHANGED <<lifeVars, cfgVars, auxVars, soloVars, up, ping, ans>>

\* The yield outside the try: an exception of the enclosed block leaves
\* ship_utilities at once.
ship_window_raise_unprotected ==
    /\ ship.pc = "active"
    /\ ship' = [ship EXCEPT !.windowExit = "raised", !.exc = "WindowError",
                            !.pc = "raised"]
    /\ UNCHANGED <<lifeVars, cfgVars, auxVars, soloVars, up, ping, ans>>

\* The enclosed block raises: the exception is thrown in at the yield, inside
\* the try, and the finally block starts the removal.
ship_window_raise ==
    /\ ship.pc = "active"
    /\ ship' = cluster_run([ship EXCEPT !.windowExit = "raised", !.exc = "WindowError"])
    /\ UNCHANGED <<lifeVars, cfgVars, auxVars, soloVars, up, ping, ans>>

\* The rm on one remote ends: with exit status 0 the files are gone.
rm_shipped(r) ==
    /\ r \in ship.running
    /\ \E ok \in BOOLEAN :
           ship' = [ship EXCEPT
               !.running = @ \ {r},
               !.failed = IF ok THEN @ ELSE @ \cup {r},
               !.files[r] = IF ok THEN @ \ ship.issued[r][Len(ship.issued[r])] ELSE @]
    /\ UNCHANGED <<lifeVars, cfgVars, auxVars, soloVars, up, ping, ans>>

\* run.wait(processes): the processes are waited for one after the other; a
\* process that exited non-zero raises out of the wait.  After the last one
\* the finally block is over and the pending exception, if any, goes on.
run_wait ==
    /\ ship.pc = "wait"
    /\ (ship.waited + 1) \notin ship.running
    /\ IF (ship.waited + 1) \in ship.failed
       THEN ship' = [ship EXCEPT !.pc = "raised", !.exc = "CommandFailedError"]
       ELSE ship' = [ship EXCEPT
                !.waited = @ + 1,
                !.pc = IF ship.waited + 1 < NumRemotes THEN @
                       ELSE IF ship.exc = "none" THEN "returned" ELSE "raised"]
    /\ UNCHANGED <<lifeVars, cfgVars, auxVars, soloVars, up, ping, ans>>

NextShip == \/ ship_file
            \/ ship_window_return
            \/ ship_window_raise
            \/ \E r \in Remotes : rm_shipped(r)
            \/ run_wait

SpecShip == InitShip /\ [][NextShip]_vars

\* --------------------------------------------------------- Salt.__ping alone

InitPing == /\ osName = [r \in Remotes |-> "SUSE LINUX"]
            /\ project = "ceph"
            /\ LifeIdle
            /\ CfgIdle
            /\ AuxIdle
            /\ SoloIdle
            /\ UpIdle
            /\ ShipIdle
            /\ ping \in {PingStart(fn, sf) : fn \in {"ping_minion", "ping_minions"},
                                            sf \in BOOLEAN}
            /\ AnsIdle

\* while proceed(): safe_while counts the try, raises when the tries are used
\* up, and sleeps before every try but (unless it sleeps first) the first.
proceed ==
    /\ ping.pc = "proceed"
    /\ IF ping.counter + 1 > PingTries
       THEN ping' = [ping EXCEPT !.counter = @ + 1, !.pc = "raised",
                                 !.exc = "MaxWhileTries"]
       ELSE ping' = [ping EXCEPT
                !.counter = @ + 1,
                !.clock = IF ping.counter = 0 /\ ~ping.sleep_first THEN @
                          ELSE @ + PingSleep,
                !.pc = "run"]
    /\ UNCHANGED <<lifeVars, cfgVars, auxVars, soloVars, up, ship, ans>>

\* The loop body returning as soon as enough minions answered.
ping_run_at_least ==
    /\ ping.pc = "run"
    /\ \E status \in {0, 1}, output \in PingOutputs :
           IF status # 0
           THEN ping' = [ping EXCEPT !.times = Append(@, ping.clock),
                                     !.pc = "raised", !.exc = "CommandFailedError"]
           ELSE ping' = [ping EXCEPT
                    !.times = Append(@, ping.clock),
                    !.output = output,
                    !.responded = Responded(output),
                    !.matched = ping.expected = Responded(output),
                    !.pc = IF ping.expected <= Responded(output) THEN "returned"
                           ELSE "proceed"]
    /\ UNCHANGED <<lifeVars, cfgVars, auxVars, soloVars, up, ship, ans>>

\* The loop body: self.master_remote.run(args=ping_cmd, stdout=output), which
\* raises on a non-zero exit; responded = len(re.findall('True', ...));
\* if expected == responded: return
ping_run ==
    /\ ping.pc = "run"
    /\ \E status \in {0, 1}, output \in PingOutputs :
           IF status # 0
           THEN ping' = [ping EXCEPT !.times = Append(@, ping.clock),
                                     !.pc = "raised", !.exc = "CommandFailedError"]
           ELSE ping' = [ping EXCEPT
                    !.times = Append(@, ping.clock),
                    !.output = output,
                    !.responded = Responded(output),
                    !.matched = ping.expected = Responded(output),
                    !.pc = IF ping.expected = Responded(output) THEN "returned"
                           ELSE "proceed"]
    /\ UNCHANGED <<lifeVars, cfgVars, auxVars, soloVars, up, ship, ans>>

NextPing == \/ proceed
            \/ ping_run

SpecPing == InitPing /\ [][NextPing]_vars

\* ----------------------------------------------------------- CephAnsible alone

InitAns == /\ osName = [r \in Remotes |-> "SUSE LINUX"]
           /\ project = "ceph"
           /\ LifeIdle
           /\ CfgIdle
           /\ AuxIdle
           /\ SoloIdle
           /\ UpIdle
           /\ ShipIdle
           /\ PingIdle
           /\ ans \in {AnsStart(c, x) : c \in AnsConfigs, x \in AnsCtxConfigs}

\* CephAnsible.__init__
CephAnsible_init ==
    /\ ans.pc = "new"
    /\ ans' = [ans EXCEPT
           !.pc = "built",
           !.config = SelfConfigAfter(ans.given, ans.ctx_config),
           !.playbook = IF "playbook" \in ans.given.has THEN "config"
                        ELSE "_default_playbook"]
    /\ UNCHANGED <<lifeVars, cfgVars, auxVars, soloVars, up, ship, ping>>

\* CephAnsible.get_host_vars(remote)
get_host_vars(r) ==
    /\ ans.pc = "built"
    /\ r \notin ans.asked
    /\ ans' = [ans EXCEPT
           !.extra_vars = ExtraVars(ans.config),
           !.host_vars = HostVarKeys(ExtraVars(ans.config)),
           !.asked = @ \cup {r}]
    /\ UNCHANGED <<lifeVars, cfgVars, auxVars, soloVars, up, ship, ping>>

NextAns == \/ CephAnsible_init
           \/ \E r \in Remotes : get_host_vars(r)

SpecAns == InitAns /\ [][NextAns]_vars

\* ------------------------------------------------------------- properties

Finished == succeeded \cup failed
Ended == pc = "idle" /\ result # "none"
InstallSucceeded == /\ "install_packages" \in returned
                    /\ reported["install_packages"] = {}
InstallFailed == /\ "install_packages" \in returned
                 /\ reported["install_packages"] # {}
TeardownStages == {"remove_packages", "remove_sources", "purge_data"}

\* The actions of `stage` on remote r that are in S.
On(S, stage, r) == {t \in TasksOf(S, stage) : t[2] = r}

\* Every action `stage` has to run on remote r is in S.
Covers(S, stage, r) ==
    IF stage = "remove_sources"
    THEN {Task(stage, r, project), Task(stage, r, "calamari")} \subseteq S
    ELSE On(S, stage, r) # {}

\* C1: when install_packages succeeded and the caller's with-body raised, then
\* by the time install() has ended the package-remove stage, the source-remove
\* stage and, for project 'ceph', the data-purge stage have each been started
\* on every remote.
C1_TeardownGuarantee ==
    (Ended /\ InstallSucceeded /\ windowExit = "raised") =>
        \A r \in Remotes :
            /\ Covers(Spawned, "remove_packages", r)
            /\ Covers(Spawned, "remove_sources", r)
            /\ project = "ceph" => Covers(Spawned, "purge_data", r)

\* C2: a failure of the package-remove stage does not keep the source-remove
\* stage and the data-purge stage from being executed, and a failure of the
\* source-remove stage does not keep the data-purge stage from being executed.
C2_NoShortCircuit ==
    Ended =>
        /\ reported["remove_packages"] # {} =>
               /\ "remove_sources" \in returned
               /\ project = "ceph" => "purge_data" \in returned
        /\ reported["remove_sources"] # {} =>
               (project = "ceph" => "purge_data" \in returned)

\* C3: once install_packages has succeeded, the finally block is entered
\* exactly once on every way out of the caller's with-body: it has been
\* entered once as soon as the with-body has ended, never before, and never a
\* second time.
C3_TeardownExactlyOnce ==
    /\ teardownEntries <= 1
    /\ windowExit = "none" => teardownEntries = 0
    /\ windowExit # "none" => teardownEntries = 1
    /\ (Ended /\ InstallSucceeded) => teardownEntries = 1

C3_Witness ==
    Ended /\ InstallSucceeded /\ windowExit = "raised" /\ teardownEntries = 1

\* C4: when install_packages raises, the caller's with-body is never entered
\* and no teardown stage is run: install() ends there, raising.
C4_InstallFailureAborts ==
    InstallFailed =>
        /\ Ended /\ result = "raised"
        /\ windowExit = "none"
        /\ teardownEntries = 0
        /\ \A s \in TeardownStages : TasksOf(Spawned, s) = {} /\ s \notin returned

C4_Witness ==
    /\ InstallFailed /\ Ended
    /\ TasksOf(succeeded, "install_packages") # {}

Phase == CASE pc = "idle" -> "Idle"
           [] pc = "install_packages" -> "Installing"
           [] pc = "active" -> "Active"
           [] OTHER -> "TearingDown"

PhaseSteps == {<<"Idle", "Installing">>, <<"Installing", "Active">>,
               <<"Installing", "Idle">>, <<"Active", "TearingDown">>,
               <<"TearingDown", "Idle">>}

\* C5: the controller only moves Idle -> Installing -> Active -> TearingDown
\* -> Idle (Installing falls back to Idle when the install fails); the usage
\* window is open only when the install action has finished on all remotes,
\* and a teardown action is started only when the usage window has ended.
C5_LifecycleOrder ==
    /\ [][Phase' # Phase => <<Phase, Phase'>> \in PhaseSteps]_vars
    /\ [](pc = "active" =>
              \A r \in Remotes : Covers(Finished, "install_packages", r))
    /\ []((\E s \in TeardownStages : TasksOf(Spawned, s) # {}) =>
              windowExit # "none")

C5_Witness ==
    /\ pc = "remove_packages"
    /\ windowExit = "returned"
    /\ TasksOf(running, "remove_packages") # {}

\* C6: the teardown stages run in the order packages, sources, data: a source
\* removal is started only when the package removal has finished on every
\* remote, and a data purge only when both source removals have finished on
\* every remote.
C6_TeardownOrder ==
    /\ TasksOf(Spawned, "remove_sources") # {} =>
           \A r \in Remotes : Covers(Finished, "remove_packages", r)
    /\ TasksOf(Spawned, "purge_data") # {} =>
           \A r \in Remotes : Covers(Finished, "remove_sources", r)

C6_Witness ==
    /\ pc = "purge_data"
    /\ TasksOf(running, "purge_data") # {}
    /\ TasksOf(succeeded, "purge_data") # {}

\* C7: whatever the set of remotes on which the fanned-out action fails, a
\* fan-out step that has returned has started the action on every remote and
\* run it to its end there, and it reports exactly the actions that failed.
C7_FanOutIndependence ==
    \A s \in returned :
        /\ \A r \in Remotes : Covers(Finished, s, r)
        /\ reported[s] = TasksOf(failed, s)
        /\ TasksOf(Spawned, s) = TasksOf(succeeded, s) \cup reported[s]

C7_Witness ==
    /\ "install_packages" \in returned
    /\ Cardinality(reported["install_packages"]) = 1
    /\ Cardinality(TasksOf(succeeded, "install_packages")) = NumRemotes - 1

\* C8: a fan-out step returns to install(), normally or with a failure, only
\* when no action it spawned is still in flight, and an action in flight
\* leaves that state only by finishing, never by being dropped.
C8_FanOutBarrier ==
    /\ [](\A s \in returned : TasksOf(running, s) = {})
    /\ [][\A t \in running : t \in running' \/ t \in Finished']_vars

C8_Witness ==
    /\ pc = "install_packages" /\ LoopDone
    /\ TasksOf(failed, "install_packages") # {}
    /\ TasksOf(running, "install_packages") # {}

Called == called

\* C9: with an 'all' entry in the config, the value resolved for any remote
\* and key is all[key], and None when the key is missing inside 'all',
\* whatever the role sub-maps and the flat entries say.
C9_AllTier ==
    (Called /\ config.hasAll) =>
        value = (IF key \in DOMAIN config.all THEN config.all[key] ELSE None)

C9_Witness ==
    /\ Called /\ config.hasAll
    /\ key \notin DOMAIN config.all
    /\ Len(roles) > 0
    /\ roles[1] \in DOMAIN config.roles /\ key \in DOMAIN config.roles[roles[1]]
    /\ key \in DOMAIN config.flat
    /\ value = None

\* Positions in the declared role list whose role has a sub-map with the key.
Matching == {i \in DOMAIN roles :
                roles[i] \in DOMAIN config.roles /\ key \in DOMAIN config.roles[roles[i]]}
FirstMatching == CHOOSE i \in Matching : \A j \in Matching : i <= j

\* C10: without an 'all' entry, when some role of the remote has a sub-map
\* with the key, the value resolved is the one in the sub-map of the first
\* such role in the remote's declared order, whatever the flat entry says.
C10_RoleTier ==
    (Called /\ ~config.hasAll /\ Matching # {}) =>
        value = config.roles[roles[FirstMatching]][key]

C10_Witness ==
    /\ Called /\ ~config.hasAll
    /\ roles = <<"osd.0", "mon.a">>
    /\ Matching = {1, 2}
    /\ config.roles["osd.0"][key] # config.roles["mon.a"][key]
    /\ key \in DOMAIN config.flat
    /\ config.flat[key] # config.roles["osd.0"][key]
    /\ value = config.roles["osd.0"][key]

\* C11: without an 'all' entry and with no role of the remote (it may have
\* none) having a sub-map with the key, the value resolved is the flat
\* config[key] when the key is there and None otherwise; any key resolved
\* against the empty config is None.
C11_FlatFallback ==
    /\ (Called /\ ~config.hasAll /\ Matching = {}) =>
           value = (IF key \in DOMAIN config.flat THEN config.flat[key] ELSE None)
    /\ (Called /\ config = EmptyConfig) => value = None

C11_Witness ==
    /\ Called /\ ~config.hasAll
    /\ Len(roles) = 2
    /\ roles[1] \in DOMAIN config.roles /\ key \notin DOMAIN config.roles[roles[1]]
    /\ roles[2] \notin DOMAIN config.roles
    /\ key \in DOMAIN config.flat
    /\ value = config.flat[key]

\* C20: the install fan-out runs on every remote the install strategy of that
\* remote's package family: the package list an install action is spawned
\* with is the one of the remote's system type.
C20_VariantSelection ==
    \A t \in TasksOf(Spawned, "install_packages") :
        t[3] = get_system_type(osName[t[2]])

\* A tag, branch or sha1 is present when it is neither None nor empty.
Present(x) == x # NoneStr /\ Len(x) > 0
HasBaseparms == u.pc # "start"

\* C12: _get_uri returns exactly one segment, chosen by tag > branch > sha1 >
\* default: 'ref/<tag>' when the tag is present, else 'ref/<branch>' when the
\* branch is present, else 'sha1/<sha1>' when the sha1 is present, else
\* 'ref/master'.
C12_ArtifactPrecedence ==
    HasBaseparms =>
        u.baseparms.uri =
            CASE Present(u.in.tag) -> <<"ref/">> \o u.in.tag
              [] ~Present(u.in.tag) /\ Present(u.in.branch) -> <<"ref/">> \o u.in.branch
              [] ~Present(u.in.tag) /\ ~Present(u.in.branch) /\ Present(u.in.sha1) ->
                     <<"sha1/">> \o u.in.sha1
              [] OTHER -> <<"ref/", "master">>

C12_Witness ==
    /\ HasBaseparms
    /\ Present(u.in.tag) /\ Present(u.in.branch) /\ Present(u.in.sha1)
    /\ u.baseparms.uri = <<"ref/", "v0.80">>

\* The part of str before its first c: all of str when it has no c.
BeforeFirst(str, c) ==
    LET n == CHOOSE k \in 0..Len(str) :
                 /\ \A j \in 1..k : str[j] # c
                 /\ k < Len(str) => str[k + 1] = c
    IN  SubSeq(str, 1, n)

\* C15: for distro 'CentOS' and any release string, distro_release is
\* 'centos' + major, dist is distro_release and dist_release is 'el' + major,
\* major being the release string up to its first '.', and the whole release
\* string when it has no '.'.
C15_CentOSMapping ==
    (HasBaseparms /\ u.in.distro = "CentOS") =>
        LET major == BeforeFirst(u.in.relval, ".") IN
        /\ u.baseparms.distro_release = <<"centos">> \o major
        /\ u.baseparms.dist = u.baseparms.distro_release
        /\ u.baseparms.dist_release = <<"el">> \o major

\* C16: for distro 'RedHatEnterpriseServer' and any release string,
\* distro_release is 'rhel' + the release with every '.' replaced by '_',
\* dist is distro_release and dist_release is 'el' + the replaced string up to
\* its first '_', the whole of it when the release has no '.'.
C16_RedHatMapping ==
    (HasBaseparms /\ u.in.distro = "RedHatEnterpriseServer") =>
        LET replaced == [i \in 1..Len(u.in.relval) |->
                            IF u.in.relval[i] = "." THEN "_" ELSE u.in.relval[i]]
        IN  /\ u.baseparms.distro_release = <<"rhel">> \o replaced
            /\ u.baseparms.dist = u.baseparms.distro_release
            /\ u.baseparms.dist_release = <<"el">> \o BeforeFirst(replaced, "_")

\* C17: the base URL is 'http://<host>/<project>-<pkg_type>-<dist>-<arch>-
\* <flavor>/<ref-segment>', the host being 'gitbuilder.ceph.com' and the
\* project 'ceph' when not configured, the flavor 'basic' when not
\* configured, and the URL fetched is that base URL followed by '/version'.
C17_RepoUrlShape ==
    LET ghost == IF u.in.gitbuilder_host = NoneStr
                 THEN <<"gitbuilder.ceph.com">> ELSE u.in.gitbuilder_host
        proj == IF u.in.project = NoneStr THEN <<"ceph">> ELSE u.in.project
        flavor == IF u.in.flavor = NoneStr THEN <<"basic">> ELSE u.in.flavor
        dist == IF u.in.distro \in {"CentOS", "RedHatEnterpriseServer", "Fedora"}
                THEN u.baseparms.distro_release ELSE u.in.codename
        url == <<"http://">> \o ghost \o <<"/">> \o proj \o <<"-">> \o u.in.system_type
                   \o <<"-">> \o dist \o <<"-">> \o u.in.arch \o <<"-">> \o flavor
                   \o <<"/">> \o u.baseparms.uri
    IN  /\ u.pc \in {"base_url", "probed"} => u.base_url = url
        /\ u.pc = "probed" => u.probed = url \o <<"/version">>

C17_Witness ==
    /\ u.pc = "probed"
    /\ u.in.distro = "Ubuntu" /\ u.in.gitbuilder_host = NoneStr
    /\ u.in.project = NoneStr /\ u.in.flavor = NoneStr
    /\ u.in.system_type = <<"deb">>
    /\ ~Present(u.in.tag) /\ ~Present(u.in.branch) /\ ~Present(u.in.sha1)
    /\ u.probed = <<"http://", "gitbuilder.ceph.com", "/", "ceph", "-", "deb", "-",
                    "trusty", "-", "x86_64", "-", "basic", "/", "ref/", "master",
                    "/version">>

\* C13: with wait false, the first fetch that exits non-zero makes the loop
\* raise VersionNotFoundError at once, carrying the URL that was fetched:
\* one fetch has been made, and no sleep.
C13_NoWaitFailsAtOnce ==
    (~poll.wait /\ poll.failures > 0) =>
        /\ poll.pc \in {"fetched", "raised"}
        /\ poll.fetches = 1 /\ poll.sleeps = 0 /\ poll.clock = 0
        /\ poll.pc = "raised" => poll.err_url \in poll.fetched

\* The part of str between its first and its last non-blank piece.
Trimmed(str) ==
    LET solid == {i \in 1..Len(str) : str[i] \notin {" ", "\n"}} IN
    IF solid = {} THEN <<>>
    ELSE SubSeq(str, CHOOSE i \in solid : \A j \in solid : i <= j,
                     CHOOSE i \in solid : \A j \in solid : j <= i)

\* C14: with wait true, n failing fetches followed by a succeeding one make
\* the loop return the trimmed content of the version file after n + 1
\* fetches and n sleeps of 15 seconds, one after each failing fetch.
C14_WaitRetries ==
    poll.wait =>
        /\ poll.sleeps <= poll.failures /\ poll.failures <= poll.sleeps + 1
        /\ poll.pc = "fetch" => poll.sleeps = poll.failures
        /\ poll.clock = 15 * poll.sleeps
        /\ poll.pc = "returned" =>
               /\ poll.fetches = poll.failures + 1
               /\ poll.sleeps = poll.failures
               /\ poll.version = Trimmed(poll.content)

C14_Witness ==
    /\ poll.wait /\ poll.pc = "returned"
    /\ poll.failures = 2 /\ poll.fetches = 3 /\ poll.sleeps = 2 /\ poll.clock = 30
    /\ poll.content = <<" ", "0.67", " ", "240", "\n", "\n">>
    /\ poll.version = <<"0.67", " ", "240">>

\* C18: _remove_rpm called on a remote where none of the listed packages is
\* installed, so that a remove command exits non-zero, completes normally and
\* leaves the remote as it was.
C18_RemoveIdempotent ==
    (host.fn = "_remove_rpm" /\ host.runs = 1 /\ host.start.pkgs = {} /\ host.nonzero) =>
        /\ host.outcome = "ok"
        /\ host.st = host.start

\* C19: _remove_sources_list_rpm called on a remote with no package of the
\* repositories, no repo file, no data directory and no log directory ends
\* normally and changes nothing, and a second call in a row ends the same way
\* in the same state.
C19_RemoveSourcesIdempotent ==
    (host.fn = "_remove_sources_list_rpm" /\ host.start = CleanHost) =>
        /\ host.runs >= 1 => (host.outcome1 = "ok" /\ host.after1 = host.start)
        /\ (host.runs >= 2 /\ host.op = "none") =>
               (host.outcome = host.outcome1 /\ host.st = host.after1)

C19_Witness ==
    /\ host.fn = "_remove_sources_list_rpm" /\ host.proj = "ceph"
    /\ host.start = CleanHost
    /\ host.runs = 2 /\ host.op = "none"
    /\ host.outcome = "ok" /\ host.st = CleanHost

\* Remotes on which the install action ended well, respectively raised.
InstalledOn == {r \in Remotes : On(succeeded, "install_packages", r) # {}}
InstallFailedOn == {r \in Remotes : On(failed, "install_packages", r) # {}}

\* C21: when the install action failed on some remotes and succeeded on
\* others, install() still runs the teardown: by its end a package removal
\* has been started on exactly the remotes whose install succeeded, and the
\* source removal and (for project 'ceph') the data purge on every remote.
C21_PartialInstallFailure ==
    (Ended /\ InstallFailedOn # {} /\ InstalledOn # {}) =>
        /\ \A r \in Remotes :
               On(Spawned, "remove_packages", r) # {} <=> r \in InstalledOn
        /\ \A r \in Remotes :
               /\ Covers(Spawned, "remove_sources", r)
               /\ project = "ceph" => Covers(Spawned, "purge_data", r)

\* A teardown action has failed on some remote.
TeardownFailed == \E s \in TeardownStages : TasksOf(failed, s) # {}

\* Every teardown stage install() has for the project has returned or raised.
TeardownAttempted ==
    /\ {"remove_packages", "remove_sources"} \subseteq returned
    /\ project = "ceph" => "purge_data" \in returned

\* C22: when the caller's with-body raised or a teardown action failed on
\* some remote, install() ends by raising, it ends only when every teardown
\* stage has been attempted, and every failed teardown action is reported by
\* its stage.
C22_FailureReporting ==
    (Ended /\ (windowExit = "raised" \/ TeardownFailed)) =>
        /\ result = "raised"
        /\ TeardownAttempted
        /\ \A s \in TeardownStages : TasksOf(failed, s) \subseteq reported[s]

\* C23: with wait true the loop never raises VersionNotFoundError and never
\* gives up: whatever the number of failing fetches so far, it is about to
\* fetch or to handle a fetch, and it has ended only by returning after a
\* fetch that exited 0.
C23_WaitNeverFails ==
    poll.wait =>
        /\ poll.pc \in {"fetch", "fetched", "returned"}
        /\ poll.err_url = NoneStr
        /\ poll.pc = "returned" => (poll.exitstatus = 0 /\ poll.published)

C23_Witness ==
    /\ poll.wait /\ ~poll.published
    /\ poll.failures = 2 /\ poll.sleeps = 2
    /\ poll.pc = "fetch"

\* C24: with wait true, if from some time on the version file is published
\* and stays so, the loop eventually returns the trimmed content of the file.
C24_PollerLiveness ==
    (poll.wait /\ <>[]poll.published) =>
        <>(poll.pc = "returned" /\ poll.version = Trimmed(poll.content))

C24_Witness ==
    /\ poll.wait /\ poll.published /\ poll.failures > 0
    /\ poll.pc = "returned" /\ poll.version = Trimmed(poll.content)

\* C25: in every teardown the source removal is started twice on each
\* remote, once for the configured project and once for 'calamari', and the
\* data-purge stage runs if and only if the configured project is 'ceph'.
C25_TeardownScope ==
    (Ended /\ teardownEntries > 0) =>
        /\ \A r \in Remotes :
               On(Spawned, "remove_sources", r) =
                   {Task("remove_sources", r, project),
                    Task("remove_sources", r, "calamari")}
        /\ "purge_data" \in returned <=> project = "ceph"

C26_UnknownDistro ==
    (inst.os_name \notin os_alias \/ inst.os_version \notin version_alias) =>
        /\ inst.pc \in {"lsb_release -is", "lsb_release -rs", "raised"}
        /\ \A i \in DOMAIN inst.cmds : inst.cmds[i] \in {LsbReleaseIs, LsbReleaseRs}
        /\ Len(inst.cmds) = 2 => inst.pc = "raised"

C26_Witness ==
    /\ inst.os_name = "SUSE LINUX" /\ inst.os_version = "14.04"
    /\ inst.pc = "raised" /\ inst.exc = "AssertionError"
    /\ inst.cmds = <<LsbReleaseIs, LsbReleaseRs>>

\* The packages in a list.
Range(list) == {list[i] : i \in DOMAIN list}

\* C28: whatever calls of install() came before in the process, a call with
\* a given config uses the package lists a first call with that config uses,
\* and the module-level rpm_packages is as it was when the module was loaded.
C28_RunScopedPackageList ==
    proc.calls > 0 =>
        /\ proc.install_list = install_info(rpm_packages, proc.config)
        /\ proc.remove_list = remove_info(rpm_packages, proc.config)
        /\ proc.rpm_packages = rpm_packages

\* C29: for every config, each package of the project's library-dependency
\* list (librbd1 and librados2 for 'ceph') is in the list handed to
\* install_packages and is not in the list handed to remove_packages.
C29_LibDepsKept ==
    proc.calls > 0 =>
        \A pkg \in Range(GetList(proj_install_rpm, proc.config.project)) :
            /\ pkg \in Range(proc.install_list)
            /\ pkg \notin Range(proc.remove_list)

\* C30: the flavor task() hands to install() and records in ctx.summary is
\* 'local' when config has a path; otherwise 'notcmalloc' when valgrind is
\* set; otherwise 'gcov' when coverage is set; otherwise the configured
\* flavor, 'basic' when there is none.
C30_FlavorSelection ==
    tk.called =>
        LET c == tk.config
            has(x) == x # NoneStr /\ x # <<>>
            expected == CASE has(c.path) -> <<"local">>
                          [] ~has(c.path) /\ has(c.valgrind) -> <<"notcmalloc">>
                          [] ~has(c.path) /\ ~has(c.valgrind) /\ has(c.coverage) ->
                                 <<"gcov">>
                          [] OTHER -> IF c.flavor = NoneStr THEN <<"basic">>
                                      ELSE c.flavor
        IN  /\ tk.install_flavor = expected
            /\ tk.summary_flavor = expected

C30_Witness ==
    /\ tk.called
    /\ tk.config.path = <<>>
    /\ tk.config.valgrind = <<"mon.a">> /\ tk.config.coverage = <<"True">>
    /\ tk.config.flavor = <<"gcov">>
    /\ tk.install_flavor = <<"notcmalloc">> /\ tk.summary_flavor = <<"notcmalloc">>

\* The config entry a remote is to be upgraded with: the `all` entry when
\* there is one, otherwise the entry of the first role processed that is on
\* the remote; an entry of None counts as an empty config.
UpEntryKey(remote) ==
    IF "all" \in DOMAIN up.in.nodes THEN "all"
    ELSE LET on == {i \in DOMAIN up.in.order : up.in.remote_of[up.in.order[i]] = remote}
         IN  up.in.order[CHOOSE i \in on : \A j \in on : i <= j]

UpEntry(remote) ==
    LET entry == up.in.nodes[UpEntryKey(remote)] IN
    IF entry = NoneNode THEN <<>> ELSE entry

\* The remotes upgrade_common is to upgrade.
UpTargets ==
    IF "all" \in DOMAIN up.in.nodes THEN UpRemotes
    ELSE {up.in.remote_of[up.in.order[i]] : i \in DOMAIN up.in.order}

C33_SaltPing ==
    /\ ping.expected = (IF ping.fn = "ping_minion" THEN 1 ELSE Cardinality(Remotes))
    /\ ping.pc = "returned" =>
           /\ Len(ping.times) >= 1
           /\ Cardinality({i \in DOMAIN ping.output : ping.output[i] = "True"})
                  = ping.expected
    /\ Len(ping.times) <= 10
    /\ \A i \in 2..Len(ping.times) : ping.times[i] = ping.times[i - 1] + 5
    /\ (Len(ping.times) = 10 /\ ping.pc # "run" /\ ~ping.matched) =>
           ping.pc \in {"proceed", "raised"}
    /\ ping.counter > 10 => (ping.pc = "raised" /\ ~ping.matched)

C33_Witness ==
    /\ ping.fn = "ping_minions" /\ ping.pc = "returned"
    /\ Len(ping.times) = 10 /\ ping.responded = NumRemotes
    /\ ping.clock >= 45

\* The three defaults as the claim states them: the user's value where the
\* user gave one, else True, the autobuild key URL and the run's branch.
AnsExpected(k) ==
    IF "vars" \in ans.given.has /\ k \in DOMAIN ans.given.vars
    THEN ans.given.vars[k]
    ELSE IF k = "ceph_dev" THEN "True"
    ELSE IF k = "ceph_dev_key"
         THEN "https://download.ceph.com/keys/autobuild.asc"
    ELSE IF "branch" \in DOMAIN ans.ctx_config THEN ans.ctx_config["branch"]
    ELSE "master"

AnsDefaulted ==
    /\ "vars" \in ans.config.has
    /\ \A k \in {"ceph_dev", "ceph_dev_key", "ceph_dev_branch"} :
           k \in DOMAIN ans.config.vars /\ ans.config.vars[k] = AnsExpected(k)
    /\ "vars" \in ans.given.has =>
           \A k \in DOMAIN ans.given.vars :
               k \in DOMAIN ans.config.vars
               /\ ans.config.vars[k] = ans.given.vars[k]

\* C34: once a CephAnsible task is constructed from any config mapping, the
\* empty one included, its config holds vars.ceph_dev, vars.ceph_dev_key and
\* vars.ceph_dev_branch, each with the user's value where one was given and the
\* default otherwise, and get_host_vars reads those same vars.
C34_AnsibleDefaults ==
    ans.pc = "built" =>
        /\ AnsDefaulted
        /\ ans.asked # {} =>
               /\ ans.extra_vars = ans.config.vars
               /\ "ceph_dev" \in DOMAIN ans.extra_vars

\* The same for a config that holds at least one key.
C34_NonEmptyConfig ==
    (ans.pc = "built" /\ ans.given.has # {}) =>
        /\ AnsDefaulted
        /\ ans.asked # {} => ans.extra_vars = ans.config.vars

====
